---------------------------- MODULE Spec2Model ----------------------------
(***************************************************************************)
(* A model of the data_cleaning scripts:                                   *)
(*   script/identify_format.py   strict delimiter detection                *)
(*   script/clean_data.py        simple detection, value normalizer,       *)
(*                               table reader, CSV and SQL emitters        *)
(*   script/clean_tsv_data.py    the TSV variant of the same pipeline      *)
(*                                                                         *)
(* Text is modelled as a sequence of one-character strings, a file as a    *)
(* sequence of lines (each line stored without its terminating newline).   *)
(***************************************************************************)
EXTENDS Integers, Sequences, FiniteSets, TLC

VARIABLES
    exists,        \* file_path.exists()
    file,          \* detection: the lines of the file under file_path
    sample_lines,  \* detection: the sample_lines argument
    strict,        \* outcome of identify_format.detect_delimiter, or Pending
    scores,        \* the scores dict of identify_format.detect_delimiter
    simple,        \* outcome of clean_data.detect_delimiter, or Pending
    tsv,           \* outcome of clean_tsv_data.detect_delimiter, or Pending
    value,         \* normalizer: the argument of clean_numeric_value
    cleaner,       \* normalizer: the script whose clean_numeric_value ran
    cleaned,       \* normalizer: what clean_numeric_value returned
    reader,        \* reader: the script whose reader runs
    delimiter,     \* reader: the delimiter argument
    reader_pc,     \* reader: "start", "rows", "done" or the exception raised
    headers,       \* reader: the headers list
    cleaned_data,  \* reader: the cleaned_data list
    row,           \* reader: the record the loop body last received
    row_num,       \* reader: the line number of that record
    csv_file,      \* emitters: the lines export_to_csv wrote, or Unwritten
    sql_statements,\* emitters: what generate_sql_statements returned or raised
    reread,        \* emitters: what reading csv_file back returned or raised
    name,          \* column names: the argument of normalize_column_name
    normalized,    \* column names: the results of the successive calls
    arguments,     \* main: the parsed command line arguments
    main_pc,       \* main: the step main is at, "returned" after its return
    resolved,      \* main: what get_delimiter returned or raised
    sql_file,      \* main: the text write_sql_file wrote, or NotCalled
    caught,        \* main: the exception the except clause caught, and its step
    exit_code      \* main: the value main returned, -1 before it returns

detectVars == <<file, sample_lines, strict, scores, simple, tsv>>
normVars == <<value, cleaner, cleaned>>
readVars == <<reader, delimiter, reader_pc, headers, cleaned_data, row, row_num>>
emitVars == <<csv_file, sql_statements, reread>>
nameVars == <<name, normalized>>
mainVars == <<arguments, main_pc, resolved, sql_file, caught, exit_code>>
vars == <<exists, detectVars, normVars, readVars, emitVars, nameVars, mainVars>>

-----------------------------------------------------------------------------
(* Bounds of the model.                                                    *)

\* most lines in a file
MaxLines == 3

-----------------------------------------------------------------------------
(* Characters and the fixed candidates.                                    *)

TAB == "\t"
COMMA == ","
PIPE == "|"
SEMICOLON == ";"
NEWLINE == "\n"
CR == "\r"

\* identify_format.DELIMITER_NAMES, in the insertion order of the dict
DELIMITER_NAMES ==
    <<[char |-> TAB, name |-> "TSV"], [char |-> COMMA, name |-> "CSV"],
      [char |-> PIPE, name |-> "PIPE"], [char |-> SEMICOLON, name |-> "SEMICOLON"]>>

\* the list `delimiters` of the two simple detectors
delimiters == <<TAB, COMMA, PIPE, SEMICOLON>>

Delims == {delimiters[i] : i \in 1..Len(delimiters)}

\* str.count for a one-character needle
StrCount(line, ch) == Cardinality({i \in 1..Len(line) : line[i] = ch})

\* sum() of a list of naturals
RECURSIVE Sum(_)
Sum(s) == IF s = <<>> THEN 0 ELSE Head(s) + Sum(Tail(s))

\* f.readline() for the k-th call on a freshly opened file: the line with its
\* newline, or the empty string at end of file
ReadLine(f, k) == IF k <= Len(f) THEN Append(f[k], NEWLINE) ELSE <<>>

-----------------------------------------------------------------------------
(* Outcomes of a detector.                                                 *)

Pending == [status |-> "pending", delimiter |-> "", name |-> "", num |-> 0, den |-> 1]
Raise(exc, msg) == [status |-> exc, delimiter |-> "", name |-> msg, num |-> 0, den |-> 1]
Return(d, nm, num, den) == [status |-> "ok", delimiter |-> d, name |-> nm, num |-> num, den |-> den]

-----------------------------------------------------------------------------
(* identify_format.detect_delimiter                                        *)

\* the sampling loop: up to sample_lines readline() calls, stopping at the
\* first empty result
RECURSIVE StrictSampleFrom(_, _, _)
StrictSampleFrom(f, k, n) ==
    IF k > n THEN <<>>
    ELSE LET line == ReadLine(f, k)
         IN  IF line = <<>> THEN <<>>
             ELSE <<line>> \o StrictSampleFrom(f, k + 1, n)

\* StrictSample reading every line of the file
StrictSampleWholeFile(f, n) == StrictSampleFrom(f, 1, Len(f))

StrictSample(f, n) == StrictSampleFrom(f, 1, n)

\* delimiter_counts[delim]: the per-line counts of one candidate
LineCounts(lines, delim) == [i \in 1..Len(lines) |-> StrCount(lines[i], delim)]

\* Counter(counts)[c]
Freq(counts, c) == Cardinality({i \in 1..Len(counts) : counts[i] = c})

\* Counter(counts).most_common(1)[0]: the count value of highest frequency;
\* among equally frequent values the one inserted first, i.e. the one whose
\* first occurrence in counts is earliest.  Returned as <<value, frequency>>.
MostCommon(counts) ==
    LET best == CHOOSE i \in 1..Len(counts) :
                   /\ \A j \in 1..Len(counts) : Freq(counts, counts[j]) <= Freq(counts, counts[i])
                   /\ \A j \in 1..(i - 1) : Freq(counts, counts[j]) < Freq(counts, counts[i])
    IN  <<counts[best], Freq(counts, counts[best])>>

\* consistency >= 0.6 where consistency = frequency / len(lines): the float
\* quotient is correctly rounded and 0.6 is the double nearest 3/5, so for
\* these small operands the comparison agrees with 5 * frequency >= 3 * n
ConsistencyThreshold(frequency, n) == 5 * frequency >= 3 * n

\* Scored without the test most_common_count > 0
ScoredNoModalCheck(lines, delim) ==
    LET counts == LineCounts(lines, delim)
        total == Sum(counts)
    IN  IF total = 0 THEN FALSE
        ELSE ConsistencyThreshold(MostCommon(counts)[2], Len(lines))

\* the filter of the scoring loop: does the candidate get an entry in scores
Scored(lines, delim) ==
    LET counts == LineCounts(lines, delim)
        total == Sum(counts)
    IN  IF total = 0 THEN FALSE
        ELSE LET mc == MostCommon(counts)
             IN  mc[1] > 0 /\ ConsistencyThreshold(mc[2], Len(lines))

\* scores[delim] = (total, consistency), consistency kept as its numerator
\* over the common denominator len(lines)
Score(lines, delim) ==
    LET counts == LineCounts(lines, delim)
    IN  <<Sum(counts), MostCommon(counts)[2]>>

\* the scores dict after the scoring loop: candidate -> (total, consistency)
ScoresOf(lines) == [d \in {e \in Delims : Scored(lines, e)} |-> Score(lines, d)]

\* TupleLess with the key written (consistency, total)
TupleLessConsistencyFirst(a, b) == a[2] < b[2] \/ (a[2] = b[2] /\ a[1] < b[1])

\* comparison of the key tuples (scores[d][0], scores[d][1]), left to right;
\* the consistencies share the denominator len(lines), so they compare as
\* their numerators
TupleLess(a, b) == a[1] < b[1] \/ (a[1] = b[1] /\ a[2] < b[2])

\* BestDelim taking the last of the keys whose key tuple none exceeds
BestDelimLastOfTies(sc) ==
    LET idx == {i \in 1..Len(DELIMITER_NAMES) : DELIMITER_NAMES[i].char \in DOMAIN sc}
        key(i) == sc[DELIMITER_NAMES[i].char]
        best == CHOOSE i \in idx :
                   /\ \A j \in idx : ~TupleLess(key(i), key(j))
                   /\ \A j \in idx : j > i => TupleLess(key(j), key(i))
    IN  DELIMITER_NAMES[best]

\* best_delim = max(scores.keys(), key=...): the first key, in the insertion
\* order of scores (that of DELIMITER_NAMES), whose key tuple none exceeds
BestDelim(sc) ==
    LET idx == {i \in 1..Len(DELIMITER_NAMES) : DELIMITER_NAMES[i].char \in DOMAIN sc}
        key(i) == sc[DELIMITER_NAMES[i].char]
        best == CHOOSE i \in idx :
                   /\ \A j \in idx : ~TupleLess(key(i), key(j))
                   /\ \A j \in idx : j < i => TupleLess(key(j), key(i))
    IN  DELIMITER_NAMES[best]

\* the value of scores when the function returns or raises
StrictScores(ex, f, n) ==
    IF ex /\ StrictSample(f, n) # <<>> THEN ScoresOf(StrictSample(f, n)) ELSE <<>>

\* StrictDetect with the consistency taken over sample_lines, not len(lines)
StrictDetectOverSampleLines(ex, f, n) ==
    IF ~ex THEN Raise("FileNotFoundError", "File not found")
    ELSE LET lines == StrictSample(f, n)
         IN  IF lines = <<>> THEN Raise("ValueError", "File is empty")
             ELSE LET sc == ScoresOf(lines)
                  IN  IF DOMAIN sc = {}
                      THEN Raise("ValueError", "Could not detect delimiter")
                      ELSE LET b == BestDelim(sc)
                           IN  Return(b.char, b.name, sc[b.char][2], n)

StrictDetect(ex, f, n) ==
    IF ~ex THEN Raise("FileNotFoundError", "File not found")
    ELSE LET lines == StrictSample(f, n)
         IN  IF lines = <<>> THEN Raise("ValueError", "File is empty")
             ELSE LET sc == ScoresOf(lines)
                  IN  IF DOMAIN sc = {}
                      THEN Raise("ValueError", "Could not detect delimiter")
                      ELSE LET b == BestDelim(sc)
                           IN  Return(b.char, b.name, sc[b.char][2], Len(lines))

-----------------------------------------------------------------------------
(* clean_data.detect_delimiter and clean_tsv_data.detect_delimiter         *)

\* sample = [f.readline() for _ in range(sample_lines)]
SimpleSample(f, n) == [k \in 1..n |-> ReadLine(f, k)]

\* delimiter_counts[delim] = sum(line.count(delim) for line in sample)
TotalCount(sample, delim) == Sum([k \in 1..Len(sample) |-> StrCount(sample[k], delim)])

\* Detected taking the first candidate that occurs at all
DetectedFirstPresent(sample) ==
    LET present == {i \in 1..Len(delimiters) : TotalCount(sample, delimiters[i]) > 0}
        best == IF present = {} THEN 1
                ELSE CHOOSE i \in present : \A j \in present : i <= j
    IN  delimiters[best]

\* max(delimiter_counts, key=...): the first key of highest count
Detected(sample) ==
    LET best == CHOOSE i \in 1..Len(delimiters) :
                   /\ \A j \in 1..Len(delimiters) :
                          TotalCount(sample, delimiters[j]) <= TotalCount(sample, delimiters[i])
                   /\ \A j \in 1..(i - 1) :
                          TotalCount(sample, delimiters[j]) < TotalCount(sample, delimiters[i])
    IN  delimiters[best]

\* SimpleDetect without the test for a zero count
SimpleDetectNoCheck(ex, f, n) ==
    IF ~ex THEN Raise("FileNotFoundError", "File not found")
    ELSE Return(Detected(SimpleSample(f, n)), "", 0, 1)

\* SimpleDetect testing the count of the first candidate for zero
SimpleDetectFirstCandidateCheck(ex, f, n) ==
    IF ~ex THEN Raise("FileNotFoundError", "File not found")
    ELSE LET sample == SimpleSample(f, n)
         IN  IF TotalCount(sample, delimiters[1]) = 0
             THEN Raise("ValueError", "Could not detect delimiter in file")
             ELSE Return(Detected(sample), "", 0, 1)

SimpleDetect(ex, f, n) ==
    IF ~ex THEN Raise("FileNotFoundError", "File not found")
    ELSE LET sample == SimpleSample(f, n)
             detected == Detected(sample)
         IN  IF TotalCount(sample, detected) = 0
             THEN Raise("ValueError", "Could not detect delimiter in file")
             ELSE Return(detected, "", 0, 1)

TsvDetect(ex, f, n) ==
    IF ~ex THEN Raise("FileNotFoundError", "File not found")
    ELSE LET sample == SimpleSample(f, n)
         IN  Return(Detected(sample), "", 0, 1)


-----------------------------------------------------------------------------
(* clean_numeric_value (clean_data.py and clean_tsv_data.py)               *)

\* longest value handed to clean_numeric_value
MaxValueLen == 4

SPACE == " "
\* the digits of the values the model hands to the normalizer
Digits == {"5"}

\* the decimal digits, in the order of their values
DecimalDigits == <<"0", "1", "2", "3", "4", "5", "6", "7", "8", "9">>
IsDigit(ch) == \E i \in 1..Len(DecimalDigits) : DecimalDigits[i] = ch
DigitVal(ch) == (CHOOSE i \in 1..Len(DecimalDigits) : DecimalDigits[i] = ch) - 1

\* The characters of the values handed to the normalizer.  Python's float()
\* also reads "+", "_", exponents and "inf"; none can be spelt with these.
ValueChars == Digits \cup {".", "-", "x", "X", "%", SPACE, "N", "/", "A", "a"}

\* Values of a cell.  A float is kept exactly: its sign, its integer part and
\* the digits after the point up to the last non-zero one (the numerals of the
\* model are short enough for float() to keep them apart); nan is
\* float("nan").
None == [t |-> "None"]
FloatNan == [t |-> "nan"]
FloatOf(sign, int, frac) == [t |-> "float", sign |-> sign, int |-> int, frac |-> frac]
Text(s) == [t |-> "str", s |-> s]
FloatValueError == [t |-> "ValueError"]

\* the whitespace characters of the model
Whitespace == {SPACE, TAB, NEWLINE, CR}

\* str.strip(): whitespace removed at both ends
RECURSIVE LStrip(_)
LStrip(s) == IF s # <<>> /\ Head(s) \in Whitespace THEN LStrip(Tail(s)) ELSE s

RECURSIVE RStrip(_)
RStrip(s) ==
    IF s # <<>> /\ s[Len(s)] \in Whitespace THEN RStrip(SubSeq(s, 1, Len(s) - 1)) ELSE s

Strip(s) == RStrip(LStrip(s))

\* the small letters of the model and their capitals
SmallLetters == <<"a", "b", "c", "e", "i", "l", "m", "n", "o", "p", "s", "t", "v", "x">>
CapitalLetters == <<"A", "B", "C", "E", "I", "L", "M", "N", "O", "P", "S", "T", "V", "X">>

\* str.upper(): a small letter becomes its capital, any other character of
\* the model stays
UpperChar(ch) ==
    IF \E i \in 1..Len(SmallLetters) : SmallLetters[i] = ch
    THEN CapitalLetters[CHOOSE i \in 1..Len(SmallLetters) : SmallLetters[i] = ch]
    ELSE ch
Upper(s) == [i \in 1..Len(s) |-> UpperChar(s[i])]

\* str.endswith for a one-character suffix
EndsWith(s, ch) == s # <<>> /\ s[Len(s)] = ch

\* s[:-1]
DropLast(s) == SubSeq(s, 1, Len(s) - 1)

\* the value of a string of digits
RECURSIVE DigitsValue(_)
DigitsValue(s) ==
    IF s = <<>> THEN 0 ELSE 10 * DigitsValue(DropLast(s)) + DigitVal(s[Len(s)])

\* digits after the point, without the trailing zeros
RECURSIVE Significant(_)
Significant(s) ==
    IF s # <<>> /\ DigitVal(s[Len(s)]) = 0 THEN Significant(DropLast(s)) ELSE s

\* float(s): surrounding whitespace is ignored, then an optional sign, then
\* either nan (in any case) or digits with at most one point and at least one
\* digit; anything else is a ValueError
Float(s) ==
    LET body == Strip(s)
        neg == body # <<>> /\ Head(body) = "-"
        num == IF neg THEN Tail(body) ELSE body
        dots == {i \in 1..Len(num) : num[i] = "."}
        point == IF dots = {} THEN Len(num) + 1 ELSE CHOOSE i \in dots : TRUE
        int == SubSeq(num, 1, point - 1)
        frac == SubSeq(num, point + 1, Len(num))
    IN  IF Upper(num) = <<"N", "A", "N">> THEN FloatNan
        ELSE IF /\ \A i \in 1..Len(num) : IsDigit(num[i]) \/ num[i] = "."
                /\ Cardinality(dots) <= 1
                /\ Len(int) + Len(frac) >= 1
             THEN FloatOf(IF neg THEN -1 ELSE 1, DigitsValue(int), Significant(frac))
             ELSE FloatValueError

\* the 'x' / 'X' rule
StripMultiple(c) ==
    IF EndsWith(c, "x") \/ EndsWith(c, "X") THEN DropLast(c) ELSE c

\* the '%' rule
StripPercent(c) ==
    IF EndsWith(c, "%") THEN DropLast(c) ELSE c

\* clean_numeric_value that never strips the whitespace
CleanNumericValueNoStrip(v) ==
    IF v = <<>> \/ Upper(v) = <<"N", "/", "A">> THEN None
    ELSE LET parsed == Float(StripPercent(StripMultiple(v)))
         IN  IF parsed = FloatValueError THEN None ELSE parsed

\* clean_numeric_value with the two suffix rules in the other order
CleanNumericValuePercentFirst(v) ==
    IF v = <<>> \/ Upper(Strip(v)) = <<"N", "/", "A">> THEN None
    ELSE LET parsed == Float(StripMultiple(StripPercent(Strip(v))))
         IN  IF parsed = FloatValueError THEN None ELSE parsed

\* clean_data.clean_numeric_value
CleanNumericValue(v) ==
    IF v = <<>> \/ Upper(Strip(v)) = <<"N", "/", "A">> THEN None
    ELSE LET parsed == Float(StripPercent(StripMultiple(Strip(v))))
         IN  IF parsed = FloatValueError THEN None ELSE parsed

\* clean_tsv_data.clean_numeric_value
TsvCleanNumericValue(v) ==
    IF v = <<>> \/ Upper(Strip(v)) = <<"N", "/", "A">> THEN None
    ELSE LET parsed == Float(StripPercent(StripMultiple(Strip(v))))
         IN  IF parsed = FloatValueError THEN None ELSE parsed

-----------------------------------------------------------------------------
(* normalize_column_name (clean_data.py and clean_tsv_data.py)             *)

\* longest name handed to normalize_column_name
MaxNameLen == 3

UNDERSCORE == "_"
\* U+0130, LATIN CAPITAL LETTER I WITH DOT ABOVE, and U+0307, COMBINING DOT
\* ABOVE: each one character of a Python str
CAPITAL_I_DOT == "U+0130"
COMBINING_DOT == "U+0307"

\* str.lower() of one character: a capital becomes its small letter, U+0130
\* becomes the two characters i, U+0307, any other character of the model
\* stays
LowerChar(ch) ==
    IF \E i \in 1..Len(CapitalLetters) : CapitalLetters[i] = ch
    THEN <<SmallLetters[CHOOSE i \in 1..Len(CapitalLetters) : CapitalLetters[i] = ch]>>
    ELSE IF ch = CAPITAL_I_DOT THEN <<"i", COMBINING_DOT>>
    ELSE <<ch>>

\* str.lower()
RECURSIVE Lower(_)
Lower(s) == IF s = <<>> THEN <<>> ELSE LowerChar(Head(s)) \o Lower(Tail(s))

\* str.replace(old, new) for a one-character old and a text new
RECURSIVE Replace(_, _, _)
Replace(s, old, new) ==
    IF s = <<>> THEN <<>>
    ELSE (IF Head(s) = old THEN new ELSE <<Head(s)>>) \o Replace(Tail(s), old, new)

\* normalize_column_name that replaces the spaces only
NormalizeColumnNameKeepCase(nm) == Replace(nm, SPACE, <<UNDERSCORE>>)

\* name.lower().replace(' ', '_')
NormalizeColumnName(nm) == Replace(Lower(nm), SPACE, <<UNDERSCORE>>)

-----------------------------------------------------------------------------
(* read_and_clean_data (clean_data.py), read_and_clean_tsv                 *)
(* (clean_tsv_data.py)                                                     *)

\* most names in a header line
MaxCols == 2
\* most fields in a data line
MaxFields == 2
\* most data lines read from one file
MaxRecords == 2

QUOTE == "\""

\* One line through csv.reader (dialect excel but for the delimiter): the
\* parser's states START_FIELD, IN_FIELD, IN_QUOTED_FIELD and
\* QUOTE_IN_QUOTED_FIELD, from the state st with the field read so far; the
\* end of the line closes the last field.  (A quoted field left open at the
\* end of a line would run on into the next line; no line of the model leaves
\* one open.)
RECURSIVE CsvParse(_, _, _, _)
CsvParse(line, d, st, field) ==
    IF line = <<>> THEN <<field>>
    ELSE LET c == Head(line)
             rest == Tail(line)
         IN  IF st = "START_FIELD"
             THEN IF c = QUOTE THEN CsvParse(rest, d, "IN_QUOTED_FIELD", <<>>)
                  ELSE IF c = d THEN <<<<>>>> \o CsvParse(rest, d, "START_FIELD", <<>>)
                  ELSE CsvParse(rest, d, "IN_FIELD", <<c>>)
             ELSE IF st = "IN_FIELD"
             THEN IF c = d THEN <<field>> \o CsvParse(rest, d, "START_FIELD", <<>>)
                  ELSE CsvParse(rest, d, "IN_FIELD", Append(field, c))
             ELSE IF st = "IN_QUOTED_FIELD"
             THEN IF c = QUOTE THEN CsvParse(rest, d, "QUOTE_IN_QUOTED_FIELD", field)
                  ELSE CsvParse(rest, d, "IN_QUOTED_FIELD", Append(field, c))
             ELSE IF c = QUOTE THEN CsvParse(rest, d, "IN_QUOTED_FIELD", Append(field, QUOTE))
                  ELSE IF c = d THEN <<field>> \o CsvParse(rest, d, "START_FIELD", <<>>)
                  ELSE CsvParse(rest, d, "IN_FIELD", Append(field, c))

\* the record csv.reader yields for one line: no field at all for an empty
\* line
CsvRecord(line, d) == IF line = <<>> THEN <<>> ELSE CsvParse(line, d, "START_FIELD", <<>>)

\* headers = [h.strip() for h in headers]
StripAll(hs) == [i \in 1..Len(hs) |-> Strip(hs[i])]

\* any(row): some field is a non-empty string
AnyField(r) == \E i \in 1..Len(r) : r[i] # <<>>

\* d[k] = v on a dict, kept as a function from its keys
DictSet(d, k, v) == [x \in (DOMAIN d) \cup {k} |-> IF x = k THEN v ELSE d[x]]

\* the clean_numeric_value a script's reader calls
CleanOf(script, v) ==
    IF script = "clean_data" THEN CleanNumericValue(v) ELSE TsvCleanNumericValue(v)

\* the loop over enumerate(zip(headers, row)), from index i (1-based here)
\* with the dict built so far
RECURSIVE CleanRowFrom(_, _, _, _, _)
CleanRowFrom(script, hs, r, i, acc) ==
    IF i > Len(hs) \/ i > Len(r) THEN acc
    ELSE CleanRowFrom(script, hs, r, i + 1,
                      DictSet(acc, hs[i],
                              IF i = 1 THEN Text(Strip(r[i])) ELSE CleanOf(script, r[i])))

\* cleaned_row for one record
CleanedRow(script, hs, r) == CleanRowFrom(script, hs, r, 1, <<>>)

-----------------------------------------------------------------------------
(* Outcomes of a reader or an emitter.                                     *)

NotCalled == [status |-> "pending"]
Raised(exc) == [status |-> exc]
Returned(v) == [status |-> "ok", value |-> v]

-----------------------------------------------------------------------------
(* The whole reader as a function of the file (read_and_clean_data,        *)
(* read_and_clean_tsv with the delimiter given).                           *)

\* the loop over the records from line k on
RECURSIVE RowsFrom(_, _, _, _, _)
RowsFrom(script, hs, lines, k, d) ==
    IF k > Len(lines) THEN <<>>
    ELSE LET r == CsvRecord(lines[k], d)
         IN  (IF AnyField(r) THEN <<CleanedRow(script, hs, r)>> ELSE <<>>)
                 \o RowsFrom(script, hs, lines, k + 1, d)

\* ReadAndCleanData that takes an empty file for a file without columns
ReadAndCleanDataNoEmptyCheck(script, ex, lines, d) ==
    IF ~ex THEN Raised("FileNotFoundError")
    ELSE IF lines = <<>> THEN Returned(<<<<>>, <<>>>>)
    ELSE LET hs == StripAll(CsvRecord(lines[1], d))
         IN  Returned(<<hs, RowsFrom(script, hs, lines, 2, d)>>)

\* FileNotFoundError when the file does not exist (the exists() check of
\* read_and_clean_data, the open() of read_and_clean_tsv); ValueError when
\* next(reader) raises StopIteration; else headers, cleaned_data
ReadAndCleanData(script, ex, lines, d) ==
    IF ~ex THEN Raised("FileNotFoundError")
    ELSE IF lines = <<>> THEN Raised("ValueError")
    ELSE LET hs == StripAll(CsvRecord(lines[1], d))
         IN  Returned(<<hs, RowsFrom(script, hs, lines, 2, d)>>)

-----------------------------------------------------------------------------
(* str() of a float                                                        *)

\* str() of a natural number
RECURSIVE IntStr(_)
IntStr(n) ==
    IF n < 10 THEN <<DecimalDigits[n + 1]>>
    ELSE IntStr(n \div 10) \o <<DecimalDigits[(n % 10) + 1]>>

\* str(value) for a float: the shortest decimal that reads back as the same
\* float, always with a point.  (The exponent form is used from 1e16 on and
\* below 1e-4; the floats of the model lie between.)
StrFloat(v) ==
    IF v = FloatNan THEN <<"n", "a", "n">>
    ELSE (IF v.sign < 0 THEN <<"-">> ELSE <<>>) \o IntStr(v.int) \o <<".">>
             \o (IF v.frac = <<>> THEN <<"0">> ELSE v.frac)

\* sep.join(texts)
RECURSIVE JoinText(_, _)
JoinText(texts, sep) ==
    IF Len(texts) = 0 THEN <<>>
    ELSE IF Len(texts) = 1 THEN texts[1]
    ELSE texts[1] \o sep \o JoinText(Tail(texts), sep)

\* the concatenation of a list of texts
Concat(texts) == JoinText(texts, <<>>)

-----------------------------------------------------------------------------
(* export_to_csv (clean_data.py and clean_tsv_data.py)                     *)

\* csv.writer, QUOTE_MINIMAL: a field is quoted, its quotes doubled, when it
\* holds the delimiter, the quote character or a character of the line
\* terminator
CsvQuote(f) ==
    IF \E i \in 1..Len(f) : f[i] \in {COMMA, QUOTE, CR, NEWLINE}
    THEN <<QUOTE>> \o Replace(f, QUOTE, <<QUOTE, QUOTE>>) \o <<QUOTE>>
    ELSE f

\* writer.writerow(fields), the line without its terminator: a record made
\* of one empty field is written as a pair of quotes
CsvWriteRow(fields) ==
    IF Len(fields) = 1 /\ fields[1] = <<>> THEN <<QUOTE, QUOTE>>
    ELSE JoinText([i \in 1..Len(fields) |-> CsvQuote(fields[i])], <<COMMA>>)

\* the text csv.writer makes of one value of csv_row: None has become '',
\* a str is written as it is, a float through str()
CsvText(v) == IF v = None THEN <<>> ELSE IF v.t = "str" THEN v.s ELSE StrFloat(v)

\* DictWriter._dict_to_list: rowdict.get(key, restval) for each of the
\* fieldnames, restval being ''
DictToList(hs, r) ==
    [i \in 1..Len(hs) |-> IF hs[i] \in DOMAIN r THEN CsvText(r[hs[i]]) ELSE <<>>]

\* export_to_csv writing None as the text None
ExportToCsvNoneAsText(hs, data) ==
    Returned(<<CsvWriteRow(hs)>> \o
             [k \in 1..Len(data) |->
                 CsvWriteRow([i \in 1..Len(hs) |->
                     IF hs[i] \notin DOMAIN data[k] THEN <<>>
                     ELSE IF data[k][hs[i]] = None THEN <<"N", "o", "n", "e">>
                     ELSE CsvText(data[k][hs[i]])])])

\* export_to_csv: the lines of the written file (the keys of a row of the
\* reader are among the headers, so DictWriter never rejects one)
ExportToCsv(hs, data) ==
    Returned(<<CsvWriteRow(hs)>> \o
             [k \in 1..Len(data) |-> CsvWriteRow(DictToList(hs, data[k]))])

-----------------------------------------------------------------------------
(* generate_sql_statements (clean_data.py and clean_tsv_data.py)           *)

\* the table_name argument
TableName == <<"t">>

APOSTROPHE == "'"

\* str.rstrip(chars)
RECURSIVE RStripChars(_, _)
RStripChars(s, cs) ==
    IF s # <<>> /\ s[Len(s)] \in cs THEN RStripChars(DropLast(s), cs) ELSE s

\* the fixed pieces of the statements
CreateTableText == 
    <<"C", "R", "E", "A", "T", "E", " ", "T", "A", "B", "L", "E", " ">>
ParenNewline == 
    <<" ", "(", "\n">>
Indent == 
    <<" ", " ", " ", " ">>
VarcharPrimaryKey == 
    <<" ", "V", "A", "R", "C", "H", "A", "R", "(", "2", "5", "5", ")", " ", "P", "R", "I", "M", "A", "R", "Y", " ", "K", "E", "Y", ",", "\n">>
Decimal102 == 
    <<" ", "D", "E", "C", "I", "M", "A", "L", "(", "1", "0", ",", " ", "2", ")", ",", "\n">>
CloseCreate == 
    <<"\n", ")", ";", "\n">>
InsertInto == 
    <<"I", "N", "S", "E", "R", "T", " ", "I", "N", "T", "O", " ">>
OpenColumns == <<" ", "(">>
ValuesOpen == 
    <<")", " ", "V", "A", "L", "U", "E", "S", " ", "(">>
CloseInsert == <<")", ";">>
CommaSpace == <<",", " ">>
NullText == <<"N", "U", "L", "L">>

\* the CREATE TABLE statement
CreateTable(hs, tn) ==
    RStripChars(CreateTableText \o tn \o ParenNewline
                    \o Indent \o NormalizeColumnName(hs[1]) \o VarcharPrimaryKey
                    \o Concat([i \in 1..(Len(hs) - 1) |->
                                  Indent \o NormalizeColumnName(hs[i + 1]) \o Decimal102]),
                {",", NEWLINE})
        \o CloseCreate

\* SqlValue without the doubling of the quotes
SqlValueNoEscape(v) ==
    IF v = None THEN NullText
    ELSE IF v.t = "str" THEN <<APOSTROPHE>> \o v.s \o <<APOSTROPHE>>
    ELSE StrFloat(v)

\* the text appended to values for one value of a row
SqlValue(v) ==
    IF v = None THEN NullText
    ELSE IF v.t = "str"
         THEN <<APOSTROPHE>> \o Replace(v.s, APOSTROPHE, <<APOSTROPHE, APOSTROPHE>>)
                  \o <<APOSTROPHE>>
    ELSE StrFloat(v)

\* the INSERT statement of one row
Insert(hs, r, tn) ==
    InsertInto \o tn \o OpenColumns
        \o JoinText([i \in 1..Len(hs) |-> NormalizeColumnName(hs[i])], CommaSpace)
        \o ValuesOpen
        \o JoinText([i \in 1..Len(hs) |-> SqlValue(r[hs[i]])], CommaSpace)
        \o CloseInsert

\* generate_sql_statements that declares every column as a DECIMAL
GenerateSqlAllDecimal(hs, data, tn) ==
    IF hs = <<>> THEN Raised("ValueError")
    ELSE IF \E k \in 1..Len(data) : \E i \in 1..Len(hs) : hs[i] \notin DOMAIN data[k]
    THEN Raised("KeyError")
    ELSE Returned(<<RStripChars(CreateTableText \o tn \o ParenNewline
                                    \o Concat([i \in 1..Len(hs) |->
                                           Indent \o NormalizeColumnName(hs[i]) \o Decimal102]),
                                {",", NEWLINE}) \o CloseCreate>>
                  \o [k \in 1..Len(data) |-> Insert(hs, data[k], tn)])

\* generate_sql_statements that accepts an empty header list
GenerateSqlNoHeaderCheck(hs, data, tn) ==
    IF \E k \in 1..Len(data) : \E i \in 1..Len(hs) : hs[i] \notin DOMAIN data[k]
    THEN Raised("KeyError")
    ELSE Returned(<<CreateTableText \o tn \o ParenNewline \o CloseCreate>>
                  \o [k \in 1..Len(data) |-> Insert(hs, data[k], tn)])

\* generate_sql_statements: ValueError for no headers; the KeyError of
\* row[header] for the first row lacking a header, the list built so far being
\* lost; else the CREATE TABLE statement and one INSERT statement per row
GenerateSqlStatements(hs, data, tn) ==
    IF hs = <<>> THEN Raised("ValueError")
    ELSE IF \E k \in 1..Len(data) : \E i \in 1..Len(hs) : hs[i] \notin DOMAIN data[k]
    THEN Raised("KeyError")
    ELSE Returned(<<CreateTable(hs, tn)>> \o [k \in 1..Len(data) |-> Insert(hs, data[k], tn)])

-----------------------------------------------------------------------------
(* clean_data.get_delimiter                                                *)

BACKSLASH == "\\"
SECTION_SIGN == "U+00A7"
A_CIRCUMFLEX == "U+00C2"

\* FORMAT_DELIMITERS, in the insertion order of the dict
FORMAT_DELIMITERS ==
    <<[key |-> <<"t", "s", "v">>, char |-> TAB],
      [key |-> <<"c", "s", "v">>, char |-> COMMA],
      [key |-> <<"p", "i", "p", "e">>, char |-> PIPE],
      [key |-> <<"s", "e", "m", "i", "c", "o", "l", "o", "n">>, char |-> SEMICOLON]>>

\* the docopt keys of the four format flags, in the order get_delimiter tests
\* them; the i-th appends the i-th key of FORMAT_DELIMITERS
FormatFlagKeys == <<"--tsv", "--csv", "--pipe", "--semicolon">>

\* the list format_flags after the four tests
RECURSIVE FormatFlagsFrom(_, _)
FormatFlagsFrom(args, i) ==
    IF i > Len(FormatFlagKeys) THEN <<>>
    ELSE (IF args[FormatFlagKeys[i]] THEN <<FORMAT_DELIMITERS[i].key>> ELSE <<>>)
             \o FormatFlagsFrom(args, i + 1)

FormatFlags(args) == FormatFlagsFrom(args, 1)

\* FORMAT_DELIMITERS[format_key]
FormatDelimiter(format_key) ==
    FORMAT_DELIMITERS[CHOOSE i \in 1..Len(FORMAT_DELIMITERS) :
                          FORMAT_DELIMITERS[i].key = format_key].char

FormatCustom == <<"C", "U", "S", "T", "O", "M">>
FormatUnknown == <<"U", "N", "K", "N", "O", "W", "N">>

\* the loop over FORMAT_DELIMITERS.items(): the upper-cased key of the first
\* entry whose character is the detected one, UNKNOWN when there is none
FormatName(d) ==
    LET hits == {i \in 1..Len(FORMAT_DELIMITERS) : FORMAT_DELIMITERS[i].char = d}
    IN  IF hits = {} THEN FormatUnknown
        ELSE Upper(FORMAT_DELIMITERS[CHOOSE i \in hits : \A j \in hits : i <= j].key)

\* bool(arguments['--delimiter']): None and the empty string are false
Truthy(v) == v # None /\ v.s # <<>>

\* delimiter.encode().decode('unicode_escape'): the text is encoded as UTF-8
\* and each byte is read back as one Latin-1 character, so U+00A7 (bytes C2
\* A7) comes back as the two characters U+00C2, U+00A7; \t, \n and \\ are
\* decoded, a backslash before another character of the model stays with it,
\* and a backslash that ends the text is a UnicodeDecodeError.  (The other
\* escapes of Python need a letter or a digit after the backslash that the
\* delimiters of the model do not hold.)
RECURSIVE UnicodeEscape(_)
UnicodeEscape(s) ==
    IF s = <<>> THEN Returned(<<>>)
    ELSE IF s[1] # BACKSLASH
    THEN LET rest == UnicodeEscape(Tail(s))
             bytes == IF s[1] = SECTION_SIGN THEN <<A_CIRCUMFLEX, SECTION_SIGN>> ELSE <<s[1]>>
         IN  IF rest.status = "ok" THEN Returned(bytes \o rest.value) ELSE rest
    ELSE IF Len(s) = 1 THEN Raised("UnicodeDecodeError")
    ELSE LET rest == UnicodeEscape(Tail(Tail(s)))
             decoded == IF s[2] = "t" THEN <<TAB>>
                        ELSE IF s[2] = "n" THEN <<NEWLINE>>
                        ELSE IF s[2] = BACKSLASH THEN <<BACKSLASH>>
                        ELSE IF s[2] = SECTION_SIGN THEN <<BACKSLASH, A_CIRCUMFLEX, SECTION_SIGN>>
                        ELSE <<BACKSLASH, s[2]>>
         IN  IF rest.status = "ok" THEN Returned(decoded \o rest.value) ELSE rest

\* int(text) for text over digits, "-" and letters: an optional sign and at
\* least one digit, ValueError for anything else
IntOf(s) ==
    LET digits == IF s # <<>> /\ s[1] = "-" THEN Tail(s) ELSE s
    IN  IF digits = <<>> \/ \E i \in 1..Len(digits) : ~IsDigit(digits[i])
        THEN Raised("ValueError")
        ELSE Returned(IF digits = s THEN DigitsValue(digits) ELSE 0 - DigitsValue(digits))

\* What a call of get_delimiter leaves: the pair returned or the exception
\* raised, and whether the file was opened and sampled on the way.
Resolved(d, nm, smp) == [status |-> "ok", delimiter |-> d, format_name |-> nm, sampled |-> smp]
Failed(exc, msg, smp) == [status |-> exc, message |-> msg, sampled |-> smp]

\* get_delimiter after the conflict check: the custom delimiter, else the
\* format flag, else detect_delimiter
ResolveDelimiter(args, ex, f) ==
    LET format_flags == FormatFlags(args)
    IN  IF Truthy(args["--delimiter"])
        THEN LET decoded == UnicodeEscape(args["--delimiter"].s)
             IN  IF decoded.status = "ok"
                 THEN Resolved(decoded.value, FormatCustom, FALSE)
                 ELSE Failed(decoded.status, "'unicodeescape' codec can't decode", FALSE)
        ELSE IF format_flags # <<>>
        THEN Resolved(<<FormatDelimiter(format_flags[1])>>, Upper(format_flags[1]), FALSE)
        ELSE LET n == IntOf(args["--sample-lines"])
             IN  IF n.status # "ok"
                 THEN Failed("ValueError", "invalid literal for int()", FALSE)
                 ELSE LET det == SimpleDetect(ex, f, n.value)
                      IN  IF det.status # "ok"
                          THEN Failed(det.status, det.name, ex)
                          ELSE Resolved(<<det.delimiter>>, FormatName(det.delimiter), ex)

\* GetDelimiter without the conflict check
GetDelimiterNoConflictCheck(args, ex, f) == ResolveDelimiter(args, ex, f)

\* get_delimiter(arguments, file_path)
GetDelimiter(args, ex, f) ==
    IF Len(FormatFlags(args)) > 1
    THEN Failed("ValueError", "Multiple format flags specified", FALSE)
    ELSE ResolveDelimiter(args, ex, f)

-----------------------------------------------------------------------------
(* Values of the variables a specification does not use.                   *)

IdleDetect ==
    /\ file = <<>>
    /\ sample_lines = 0
    /\ strict = Pending
    /\ scores = <<>>
    /\ simple = Pending
    /\ tsv = Pending

IdleNorm ==
    /\ value = <<>>
    /\ cleaner = ""
    /\ cleaned = None

IdleRead ==
    /\ reader = ""
    /\ delimiter = ""
    /\ reader_pc = "idle"
    /\ headers = <<>>
    /\ cleaned_data = <<>>
    /\ row = <<>>
    /\ row_num = 0

IdleEmit ==
    /\ csv_file = NotCalled
    /\ sql_statements = NotCalled
    /\ reread = NotCalled

IdleName ==
    /\ name = <<>>
    /\ normalized = <<>>

\* no exception caught
NoError == [exc |-> "", step |-> ""]

IdleMain ==
    /\ arguments = <<>>
    /\ main_pc = "idle"
    /\ resolved = NotCalled
    /\ sql_file = NotCalled
    /\ caught = NoError
    /\ exit_code = -1

-----------------------------------------------------------------------------
(* SpecDetect: one file, and the three detectors run on it.                *)

\* n copies of one character
Rep(ch, n) == [i \in 1..n |-> ch]

\* The lines of the sampled files.  A detector looks at a line only through
\* its four counts, so a line is given by them: <<tabs, commas, pipes,
\* semicolons>>.  <<0, 0, 0, 0>> stands for any line of plain text.
DetectLineCounts ==
    {<<0, 0, 0, 0>>, <<1, 0, 0, 0>>, <<2, 0, 0, 0>>, <<0, 1, 0, 0>>, <<1, 1, 0, 0>>,
     <<2, 1, 0, 0>>, <<0, 0, 1, 0>>, <<0, 0, 0, 1>>, <<0, 0, 1, 1>>}

DetectLines ==
    {Rep(TAB, q[1]) \o Rep(COMMA, q[2]) \o Rep(PIPE, q[3]) \o Rep(SEMICOLON, q[4]) :
        q \in DetectLineCounts}

DetectFiles == UNION {[1..n -> DetectLines] : n \in 0..MaxLines}

InitDetect ==
    /\ exists \in BOOLEAN
    /\ file \in (IF exists THEN DetectFiles ELSE {<<>>})
    /\ sample_lines \in 0..(MaxLines + 1)
    /\ strict = Pending
    /\ scores = <<>>
    /\ simple = Pending
    /\ tsv = Pending
    /\ IdleNorm
    /\ IdleRead
    /\ IdleEmit
    /\ IdleName
    /\ IdleMain

\* identify_format.detect_delimiter(file_path, sample_lines)
RunStrict ==
    /\ strict = Pending
    /\ strict' = StrictDetect(exists, file, sample_lines)
    /\ scores' = StrictScores(exists, file, sample_lines)
    /\ UNCHANGED <<exists, file, sample_lines, simple, tsv, normVars, readVars, emitVars, nameVars, mainVars>>

\* clean_data.detect_delimiter(file_path, sample_lines)
RunSimple ==
    /\ simple = Pending
    /\ simple' = SimpleDetect(exists, file, sample_lines)
    /\ UNCHANGED <<exists, file, sample_lines, strict, scores, tsv, normVars, readVars, emitVars, nameVars, mainVars>>

\* clean_tsv_data.detect_delimiter(file_path, sample_lines)
RunTsv ==
    /\ tsv = Pending
    /\ tsv' = TsvDetect(exists, file, sample_lines)
    /\ UNCHANGED <<exists, file, sample_lines, strict, scores, simple, normVars, readVars, emitVars, nameVars, mainVars>>

NextDetect == RunStrict \/ RunSimple \/ RunTsv

SpecDetect == InitDetect /\ [][NextDetect]_vars

-----------------------------------------------------------------------------
(* SpecNorm: one string, and the two normalizers applied to it.            *)

Values == UNION {[1..n -> ValueChars] : n \in 0..MaxValueLen}

InitNorm ==
    /\ exists = TRUE
    /\ value \in Values
    /\ cleaner = ""
    /\ cleaned = None
    /\ IdleDetect
    /\ IdleRead
    /\ IdleEmit
    /\ IdleName
    /\ IdleMain

\* clean_data.clean_numeric_value(value)
RunClean ==
    /\ cleaner = ""
    /\ cleaner' = "clean_data"
    /\ cleaned' = CleanNumericValue(value)
    /\ UNCHANGED <<exists, value, detectVars, readVars, emitVars, nameVars, mainVars>>

\* clean_tsv_data.clean_numeric_value(value)
RunTsvClean ==
    /\ cleaner = ""
    /\ cleaner' = "clean_tsv_data"
    /\ cleaned' = TsvCleanNumericValue(value)
    /\ UNCHANGED <<exists, value, detectVars, readVars, emitVars, nameVars, mainVars>>

NextNorm == RunClean \/ RunTsvClean

SpecNorm == InitNorm /\ [][NextNorm]_vars

-----------------------------------------------------------------------------
(* SpecName: one column name, normalized and then normalized again.        *)

NameChars == {"A", "a", SPACE, UNDERSCORE, CAPITAL_I_DOT}

Names == UNION {[1..n -> NameChars] : n \in 0..MaxNameLen}

InitName ==
    /\ exists = TRUE
    /\ name \in Names
    /\ normalized = <<>>
    /\ IdleDetect
    /\ IdleNorm
    /\ IdleRead
    /\ IdleEmit
    /\ IdleMain

\* normalize_column_name(name)
RunNormalize ==
    /\ normalized = <<>>
    /\ normalized' = <<NormalizeColumnName(name)>>
    /\ UNCHANGED <<exists, name, detectVars, normVars, readVars, emitVars, mainVars>>

\* normalize_column_name applied to the name it returned
RunNormalizeAgain ==
    /\ Len(normalized) = 1
    /\ normalized' = Append(normalized, NormalizeColumnName(normalized[1]))
    /\ UNCHANGED <<exists, name, detectVars, normVars, readVars, emitVars, mainVars>>

NextName == RunNormalize \/ RunNormalizeAgain

SpecName == InitName /\ [][NextName]_vars

-----------------------------------------------------------------------------
(* SpecRead: a reader consuming a file record by record.  The file is the  *)
(* sequence of lines the steps choose.                                     *)

\* delimiter.join(fields)
RECURSIVE Join(_, _)
Join(fs, d) ==
    IF Len(fs) = 0 THEN <<>>
    ELSE IF Len(fs) = 1 THEN fs[1]
    ELSE fs[1] \o <<d>> \o Join(Tail(fs), d)

HeaderNames == {<<SPACE, "A">>, <<"B", SPACE, "b">>}
FieldValues == {<<SPACE>>, <<SPACE, "5", "x">>, <<"O", APOSTROPHE, COMMA>>}

\* first lines: names joined by the delimiter, or an empty line
HeaderLines(d) ==
    {<<>>} \cup {Join(fs, d) : fs \in UNION {[1..n -> HeaderNames] : n \in 1..MaxCols}}

\* later lines: fields joined by the delimiter, or an empty line
DataLines(d) ==
    {<<>>} \cup {Join(fs, d) : fs \in UNION {[1..n -> FieldValues] : n \in 1..MaxFields}}

InitRead ==
    /\ exists \in BOOLEAN
    /\ reader \in {"clean_data", "clean_tsv_data"}
    /\ delimiter \in {COMMA, TAB}
    /\ reader_pc = "start"
    /\ headers = <<>>
    /\ cleaned_data = <<>>
    /\ row = <<>>
    /\ row_num = 1
    /\ IdleEmit
    /\ IdleDetect
    /\ IdleNorm
    /\ IdleName
    /\ IdleMain

\* the file does not exist: the exists() check of read_and_clean_data, the
\* open() of read_and_clean_tsv
FileNotFound ==
    /\ reader_pc = "start"
    /\ ~exists
    /\ reader_pc' = "FileNotFoundError"
    /\ UNCHANGED <<exists, reader, delimiter, headers, cleaned_data, row, row_num,
                   detectVars, normVars, emitVars, nameVars, mainVars>>

\* next(reader) raises StopIteration: the file has no line
NoHeaderRow ==
    /\ reader_pc = "start"
    /\ exists
    /\ reader_pc' = "ValueError"
    /\ UNCHANGED <<exists, reader, delimiter, headers, cleaned_data, row, row_num,
                   detectVars, normVars, emitVars, nameVars, mainVars>>

\* headers = next(reader), then each stripped
ReadHeaders ==
    /\ reader_pc = "start"
    /\ exists
    /\ \E line \in HeaderLines(delimiter) : headers' = StripAll(CsvRecord(line, delimiter))
    /\ reader_pc' = "rows"
    /\ UNCHANGED <<exists, reader, delimiter, cleaned_data, row, row_num,
                   detectVars, normVars, emitVars, nameVars, mainVars>>

\* one pass of the loop over the remaining records
ReadRow ==
    /\ reader_pc = "rows"
    /\ row_num <= MaxRecords
    /\ row_num' = row_num + 1
    /\ \E line \in DataLines(delimiter) :
          /\ row' = CsvRecord(line, delimiter)
          /\ cleaned_data' = IF ~AnyField(row') THEN cleaned_data
                             ELSE Append(cleaned_data, CleanedRow(reader, headers, row'))
    /\ UNCHANGED <<exists, reader, delimiter, reader_pc, headers, detectVars, normVars, emitVars, nameVars, mainVars>>

\* the records are exhausted: return headers, cleaned_data; the locals of the
\* loop are gone
ReturnData ==
    /\ reader_pc = "rows"
    /\ reader_pc' = "done"
    /\ row' = <<>>
    /\ row_num' = 0
    /\ UNCHANGED <<exists, reader, delimiter, headers, cleaned_data,
                   detectVars, normVars, emitVars, nameVars, mainVars>>

\* the None values of a row replaced by the empty string
NoneToEmpty(r) == [k \in DOMAIN r |-> IF r[k] = None THEN Text(<<>>) ELSE r[k]]

\* RunExportToCsv converting the None values in the rows themselves
RunExportToCsvInPlace ==
    /\ reader_pc \in {"done", "generated"}
    /\ csv_file' = ExportToCsv(headers, cleaned_data)
    /\ cleaned_data' = [k \in 1..Len(cleaned_data) |-> NoneToEmpty(cleaned_data[k])]
    /\ reader_pc' = (IF reader_pc = "done" THEN "exported" ELSE "emitted")
    /\ UNCHANGED <<exists, reader, delimiter, headers, row, row_num,
                   sql_statements, reread, detectVars, normVars, nameVars, mainVars>>

\* export_to_csv(headers, cleaned_data, output_csv), before or after the SQL
\* statements are generated
RunExportToCsv ==
    /\ reader_pc \in {"done", "generated"}
    /\ csv_file' = ExportToCsv(headers, cleaned_data)
    /\ reader_pc' = (IF reader_pc = "done" THEN "exported" ELSE "emitted")
    /\ UNCHANGED <<exists, reader, delimiter, headers, cleaned_data, row, row_num,
                   sql_statements, reread, detectVars, normVars, nameVars, mainVars>>

\* generate_sql_statements(headers, cleaned_data, table_name), after or
\* before the CSV file is written
RunGenerateSql ==
    /\ reader_pc \in {"done", "exported"}
    /\ sql_statements' = GenerateSqlStatements(headers, cleaned_data, TableName)
    /\ reader_pc' = (IF reader_pc = "done" THEN "generated" ELSE "emitted")
    /\ UNCHANGED <<exists, reader, delimiter, headers, cleaned_data, row, row_num,
                   csv_file, reread, detectVars, normVars, nameVars, mainVars>>

\* the written CSV file read back by the same reader with the comma
ReadBack ==
    /\ reader_pc = "emitted"
    /\ reread' = ReadAndCleanData(reader, TRUE, csv_file.value, COMMA)
    /\ reader_pc' = "reread"
    /\ UNCHANGED <<exists, reader, delimiter, headers, cleaned_data, row, row_num,
                   csv_file, sql_statements, detectVars, normVars, nameVars, mainVars>>

NextRead ==
    \/ FileNotFound \/ NoHeaderRow \/ ReadHeaders \/ ReadRow \/ ReturnData
    \/ RunExportToCsv \/ RunGenerateSql \/ ReadBack

SpecRead == InitRead /\ [][NextRead]_vars

-----------------------------------------------------------------------------
(* SpecFile: one file, and a reader called on it.                          *)

\* the lines of the files read
ReadLines ==
    {<<>>, <<SPACE, "A", COMMA, "B", SPACE, "b">>, <<SPACE, "A", TAB, "B", SPACE, "b">>,
     <<"O", APOSTROPHE, COMMA, SPACE, "5", "x">>}

ReadFiles == UNION {[1..n -> ReadLines] : n \in 0..MaxLines}

InitFile ==
    /\ exists \in BOOLEAN
    /\ file \in (IF exists THEN ReadFiles ELSE {<<>>})
    /\ delimiter \in {COMMA, TAB}
    /\ reader = ""
    /\ reader_pc = "start"
    /\ headers = <<>>
    /\ cleaned_data = <<>>
    /\ row = <<>>
    /\ row_num = 0
    /\ sample_lines = 0
    /\ strict = Pending
    /\ scores = <<>>
    /\ simple = Pending
    /\ tsv = Pending
    /\ IdleNorm
    /\ IdleEmit
    /\ IdleName
    /\ IdleMain

\* what a call of a reader leaves: the exception raised, or the headers and
\* the rows returned
ReaderCalled(script) ==
    /\ reader = ""
    /\ reader' = script
    /\ LET r == ReadAndCleanData(script, exists, file, delimiter)
       IN  IF r.status = "ok"
           THEN /\ reader_pc' = "done"
                /\ headers' = r.value[1]
                /\ cleaned_data' = r.value[2]
           ELSE /\ reader_pc' = r.status
                /\ UNCHANGED <<headers, cleaned_data>>
    /\ UNCHANGED <<exists, detectVars, delimiter, row, row_num, normVars, emitVars, nameVars, mainVars>>

\* read_and_clean_data(file_path, delimiter)
RunReadAndCleanData == ReaderCalled("clean_data")

\* read_and_clean_tsv(file_path, delimiter)
RunReadAndCleanTsv == ReaderCalled("clean_tsv_data")

NextFile == RunReadAndCleanData \/ RunReadAndCleanTsv

SpecFile == InitFile /\ [][NextFile]_vars

-----------------------------------------------------------------------------
(* SpecArgs: one command line and one file, and get_delimiter called on    *)
(* them.                                                                   *)

\* the options of the usage text that main and get_delimiter read
ArgumentKeys ==
    {"--tsv", "--csv", "--pipe", "--semicolon", "--delimiter", "--sample-lines",
     "--no-csv", "--no-sql"}

\* the dict docopt returns: the format flags of the set flags are True, the
\* others False
ArgumentsOf(flags, delim, lines, nocsv, nosql) ==
    [k \in ArgumentKeys |->
        IF k = "--delimiter" THEN delim
        ELSE IF k = "--sample-lines" THEN lines
        ELSE IF k = "--no-csv" THEN nocsv
        ELSE IF k = "--no-sql" THEN nosql
        ELSE k \in flags]

\* values of --delimiter: not given, empty, a comma, the escape \t, a lone
\* backslash, two commas, a section sign
DelimiterArgs ==
    {None, Text(<<>>), Text(<<COMMA>>), Text(<<BACKSLASH, "t">>), Text(<<BACKSLASH>>),
     Text(<<COMMA, COMMA>>), Text(<<SECTION_SIGN>>)}

\* values of --sample-lines
SampleLinesArgs == {<<"0">>, <<"2">>, <<"-", "1">>, <<"x">>}

FormatFlagSets == SUBSET {FormatFlagKeys[i] : i \in 1..Len(FormatFlagKeys)}

InitArgs ==
    /\ exists \in BOOLEAN
    /\ file \in (IF exists THEN ReadFiles ELSE {<<>>})
    /\ \E flags \in FormatFlagSets, delim \in DelimiterArgs, lines \in SampleLinesArgs :
          arguments = ArgumentsOf(flags, delim, lines, FALSE, FALSE)
    /\ main_pc = "idle"
    /\ resolved = NotCalled
    /\ sql_file = NotCalled
    /\ caught = NoError
    /\ exit_code = -1
    /\ sample_lines = 0
    /\ strict = Pending
    /\ scores = <<>>
    /\ simple = Pending
    /\ tsv = Pending
    /\ IdleNorm
    /\ IdleRead
    /\ IdleEmit
    /\ IdleName

\* get_delimiter(arguments, file_path)
RunGetDelimiter ==
    /\ main_pc = "idle"
    /\ resolved = NotCalled
    /\ resolved' = GetDelimiter(arguments, exists, file)
    /\ UNCHANGED <<exists, file, sample_lines, strict, scores, simple, tsv, normVars, readVars,
                   emitVars, nameVars, arguments, main_pc, sql_file, caught, exit_code>>

NextArgs == RunGetDelimiter

SpecArgs == InitArgs /\ [][NextArgs]_vars

-----------------------------------------------------------------------------
(* SpecMain: one run of clean_data.main, step by step.  The two output     *)
(* paths name two files, neither of them the input file.                   *)

\* the format flags of the runs of main
MainFlagSets == {{}, {"--csv"}, {"--tsv"}, {"--tsv", "--csv"}}

InitMain ==
    /\ exists \in BOOLEAN
    /\ file \in (IF exists THEN ReadFiles ELSE {<<>>})
    /\ \E flags \in MainFlagSets, delim \in DelimiterArgs, lines \in SampleLinesArgs :
          \E nocsv \in BOOLEAN, nosql \in BOOLEAN :
             arguments = ArgumentsOf(flags, delim, lines, nocsv, nosql)
    /\ main_pc = "start"
    /\ resolved = NotCalled
    /\ headers = <<>>
    /\ cleaned_data = <<>>
    /\ csv_file = NotCalled
    /\ sql_statements = NotCalled
    /\ sql_file = NotCalled
    /\ caught = NoError
    /\ exit_code = -1
    /\ reader = ""
    /\ delimiter = ""
    /\ reader_pc = "idle"
    /\ row = <<>>
    /\ row_num = 0
    /\ reread = NotCalled
    /\ sample_lines = 0
    /\ strict = Pending
    /\ scores = <<>>
    /\ simple = Pending
    /\ tsv = Pending
    /\ IdleNorm
    /\ IdleName

\* what no step of main changes
mainFrame ==
    <<exists, file, arguments, sample_lines, strict, scores, simple, tsv, normVars, reader,
      delimiter, reader_pc, row, row_num, reread, nameVars>>

\* Except returning 0
ExceptReturnZero(step, exc) ==
    /\ caught' = [exc |-> exc, step |-> step]
    /\ exit_code' = 0
    /\ main_pc' = "returned"

\* except Exception as e: the message is printed and main returns 1
Except(step, exc) ==
    /\ caught' = [exc |-> exc, step |-> step]
    /\ exit_code' = 1
    /\ main_pc' = "returned"

\* if not input_file.exists(): return 1
MainCheckInput ==
    /\ main_pc = "start"
    /\ IF exists
       THEN main_pc' = "get_delimiter" /\ UNCHANGED exit_code
       ELSE main_pc' = "returned" /\ exit_code' = 1
    /\ UNCHANGED <<mainFrame, resolved, headers, cleaned_data, csv_file, sql_statements,
                   sql_file, caught>>

\* delimiter, format_name = get_delimiter(arguments, input_file, quiet)
MainGetDelimiter ==
    /\ main_pc = "get_delimiter"
    /\ resolved' = GetDelimiter(arguments, exists, file)
    /\ IF resolved'.status = "ok"
       THEN main_pc' = "read" /\ UNCHANGED <<caught, exit_code>>
       ELSE Except("get_delimiter", resolved'.status)
    /\ UNCHANGED <<mainFrame, headers, cleaned_data, csv_file, sql_statements, sql_file>>

\* read_and_clean_data with the delimiter main passes: csv.reader takes a
\* delimiter of one character only and raises TypeError for any other string
MainReadAndCleanData(ex, lines, d) ==
    IF ~ex THEN Raised("FileNotFoundError")
    ELSE IF Len(d) # 1 THEN Raised("TypeError")
    ELSE ReadAndCleanData("clean_data", ex, lines, d[1])

\* headers, cleaned_data = read_and_clean_data(input_file, delimiter=delimiter)
MainRead ==
    /\ main_pc = "read"
    /\ LET r == MainReadAndCleanData(exists, file, resolved.delimiter)
       IN  IF r.status = "ok"
           THEN /\ headers' = r.value[1]
                /\ cleaned_data' = r.value[2]
                /\ main_pc' = "export_to_csv"
                /\ UNCHANGED <<caught, exit_code>>
           ELSE /\ Except("read_and_clean_data", r.status)
                /\ UNCHANGED <<headers, cleaned_data>>
    /\ UNCHANGED <<mainFrame, resolved, csv_file, sql_statements, sql_file>>

\* MainExportCsv without the test of --no-csv
MainExportCsvAlways ==
    /\ main_pc = "export_to_csv"
    /\ csv_file' = ExportToCsv(headers, cleaned_data)
    /\ main_pc' = "generate_sql"
    /\ UNCHANGED <<caught, exit_code>>
    /\ UNCHANGED <<mainFrame, resolved, headers, cleaned_data, sql_statements, sql_file>>

\* if not no_csv: export_to_csv(headers, cleaned_data, output_csv).  open()
\* of the output path succeeds or raises OSError; a file that was not opened
\* is not written.
MainExportCsv ==
    /\ main_pc = "export_to_csv"
    /\ IF arguments["--no-csv"]
       THEN main_pc' = "generate_sql" /\ UNCHANGED <<csv_file, caught, exit_code>>
       ELSE \E opened \in BOOLEAN :
               IF opened
               THEN /\ csv_file' = ExportToCsv(headers, cleaned_data)
                    /\ main_pc' = "generate_sql"
                    /\ UNCHANGED <<caught, exit_code>>
               ELSE /\ Except("export_to_csv", "OSError")
                    /\ UNCHANGED csv_file
    /\ UNCHANGED <<mainFrame, resolved, headers, cleaned_data, sql_statements, sql_file>>

\* MainSql opening the output file before the statements are generated
MainSqlOpenFirst ==
    /\ main_pc = "generate_sql"
    /\ ~arguments["--no-sql"]
    /\ sql_statements' = GenerateSqlStatements(headers, cleaned_data, TableName)
    /\ IF sql_statements'.status # "ok"
       THEN /\ Except("generate_sql_statements", sql_statements'.status)
            /\ sql_file' = Returned(<<>>)
       ELSE /\ sql_file' = Returned(JoinText(sql_statements'.value, <<NEWLINE>>))
            /\ main_pc' = "returned"
            /\ exit_code' = 0
            /\ UNCHANGED caught
    /\ UNCHANGED <<mainFrame, resolved, headers, cleaned_data, csv_file>>

\* '\n'.join(sql_statements), the text write_sql_file writes
SqlText(statements) == JoinText(statements, <<NEWLINE>>)

\* if not no_sql: generate_sql_statements, then write_sql_file; return 0
MainSql ==
    /\ main_pc = "generate_sql"
    /\ IF arguments["--no-sql"]
       THEN /\ main_pc' = "returned"
            /\ exit_code' = 0
            /\ UNCHANGED <<sql_statements, sql_file, caught>>
       ELSE /\ sql_statements' = GenerateSqlStatements(headers, cleaned_data, TableName)
            /\ IF sql_statements'.status # "ok"
               THEN /\ Except("generate_sql_statements", sql_statements'.status)
                    /\ UNCHANGED sql_file
               ELSE \E opened \in BOOLEAN :
                       IF opened
                       THEN /\ sql_file' = Returned(SqlText(sql_statements'.value))
                            /\ main_pc' = "returned"
                            /\ exit_code' = 0
                            /\ UNCHANGED caught
                       ELSE /\ Except("write_sql_file", "OSError")
                            /\ UNCHANGED sql_file
    /\ UNCHANGED <<mainFrame, resolved, headers, cleaned_data, csv_file>>

NextMain == MainCheckInput \/ MainGetDelimiter \/ MainRead \/ MainExportCsv \/ MainSql

SpecMain == InitMain /\ [][NextMain]_vars

-----------------------------------------------------------------------------
(* What the properties of detection speak of, read off the file itself.    *)

\* the number of sampled lines: min(sample_lines, number of lines)
NSampled == IF sample_lines <= Len(file) THEN sample_lines ELSE Len(file)

\* occurrences of candidate d in the k-th line of the file
Occ(d, k) == Cardinality({i \in 1..Len(file[k]) : file[k][i] = d})

\* total occurrence count of d over the sampled lines
RECURSIVE OccUpTo(_, _)
OccUpTo(d, k) == IF k = 0 THEN 0 ELSE OccUpTo(d, k - 1) + Occ(d, k)

TotalOcc(d) == OccUpTo(d, NSampled)

\* the sampled lines holding exactly c occurrences of d
LinesWith(d, c) == {k \in 1..NSampled : Occ(d, k) = c}

\* the count values of d that are modal: none is met in more sampled lines
ModalCounts(d) ==
    {Occ(d, k) : k \in {j \in 1..NSampled :
        \A i \in 1..NSampled :
            Cardinality(LinesWith(d, Occ(d, i))) <= Cardinality(LinesWith(d, Occ(d, j)))}}

\* the number of sampled lines holding a modal count of d
ModalFrequency(d) ==
    IF NSampled = 0 THEN 0
    ELSE Cardinality(LinesWith(d, CHOOSE c \in ModalCounts(d) : TRUE))

\* consistency ratio ModalFrequency / NSampled >= 0.6, in integers
RatioAtLeastSixTenths(d) == 5 * ModalFrequency(d) >= 3 * NSampled

AllZero == \A d \in Delims : TotalOcc(d) = 0

\* the strict detector has run on an existing file with a non-empty sample
StrictScored == strict # Pending /\ exists /\ NSampled > 0

\* C1 (as written): after strict detection has scored a sample, a candidate
\* is in scores exactly when its total count is non-zero and its consistency
\* ratio is at least 0.6, and NoDelimiterDetected is raised exactly when scores
\* is empty.
C1_SurvivesIffTotalAndRatio ==
    StrictScored =>
        /\ \A d \in Delims :
               d \in DOMAIN scores <=> (TotalOcc(d) # 0 /\ RatioAtLeastSixTenths(d))
        /\ (strict.status = "ValueError") <=> (DOMAIN scores = {})

\* C1 (amended): a candidate is in scores exactly when its total count is
\* non-zero, its modal count is non-zero and its consistency ratio is at least
\* 0.6; NoDelimiterDetected is raised exactly when scores is empty.
C1_SurvivesIffModalNonZeroAndRatio ==
    StrictScored =>
        /\ \A d \in Delims :
               d \in DOMAIN scores <=>
                   /\ TotalOcc(d) # 0
                   /\ 0 \notin ModalCounts(d)
                   /\ RatioAtLeastSixTenths(d)
        /\ (strict.status = "ValueError") <=> (DOMAIN scores = {})
        /\ (strict.status = "ok") <=> (DOMAIN scores # {})

\* a sample where one candidate survives and another, present in a minority
\* of the lines only, is discarded although its ratio reaches 0.6
C1_Witness ==
    /\ StrictScored
    /\ \E d, e \in Delims :
          /\ d \in DOMAIN scores
          /\ e \notin DOMAIN scores
          /\ TotalOcc(e) # 0
          /\ RatioAtLeastSixTenths(e)

\* C2: when strict detection succeeds the returned delimiter is in scores, no
\* survivor has a larger total, no survivor of equal total has a larger
\* consistency ratio, and a perfectly consistent survivor never wins against a
\* survivor of larger total.
C2_WinnerMaxTotalThenRatio ==
    (strict.status = "ok") =>
        LET w == strict.delimiter
        IN  /\ w \in DOMAIN scores
            /\ \A e \in DOMAIN scores :
                   /\ TotalOcc(e) <= TotalOcc(w)
                   /\ TotalOcc(e) = TotalOcc(w) => ModalFrequency(e) <= ModalFrequency(w)
            /\ \A a, b \in DOMAIN scores :
                   (/\ TotalOcc(a) > TotalOcc(b)
                    /\ ModalFrequency(a) < ModalFrequency(b)
                    /\ ModalFrequency(b) = NSampled) => w # b

\* the winner is less consistent than a perfectly consistent survivor of a
\* smaller total
C2_Witness ==
    /\ strict.status = "ok"
    /\ \E b \in DOMAIN scores :
          /\ TotalOcc(b) < TotalOcc(strict.delimiter)
          /\ ModalFrequency(b) = NSampled
          /\ ModalFrequency(strict.delimiter) < NSampled

\* C3: the confidence num/den returned by strict detection lies in [0, 1],
\* equals the modal frequency of the returned delimiter over the number of
\* sampled lines, and is 1 exactly when all sampled lines hold the same number
\* of occurrences of the returned delimiter.
C3_ConfidenceIsModalShare ==
    (strict.status = "ok") =>
        LET w == strict.delimiter
        IN  /\ strict.den > 0
            /\ 0 <= strict.num /\ strict.num <= strict.den
            /\ strict.num * NSampled = ModalFrequency(w) * strict.den
            /\ (strict.num = strict.den) <=>
                   (\A j, k \in 1..NSampled : Occ(w, j) = Occ(w, k))

\* a success with confidence below 1 on a file shorter than sample_lines
C3_Witness ==
    /\ strict.status = "ok"
    /\ strict.num < strict.den
    /\ Len(file) < sample_lines

\* C4: when simple detection (clean_data) succeeds, the result is a fixed
\* candidate of maximal total count over the sampled lines; when tabs are
\* strictly more frequent than every other candidate the result is TAB.
C4_SimpleReturnsMaxTotal ==
    (simple # Pending /\ exists) =>
        /\ (simple.status = "ok") =>
               /\ simple.delimiter \in Delims
               /\ \A e \in Delims : TotalOcc(e) <= TotalOcc(simple.delimiter)
        /\ (\A e \in Delims \ {TAB} : TotalOcc(TAB) > TotalOcc(e)) =>
               (simple.status = "ok" /\ simple.delimiter = TAB)

\* TAB is returned although commas occur and the tab counts are so uneven that
\* strict detection rejects every candidate
C4_Witness ==
    /\ simple.status = "ok"
    /\ simple.delimiter = TAB
    /\ \A e \in Delims \ {TAB} : TotalOcc(TAB) > TotalOcc(e)
    /\ TotalOcc(COMMA) > 0
    /\ ~RatioAtLeastSixTenths(TAB)
    /\ strict.status = "ValueError"

\* C5: on an existing file whose sample holds none of the four candidates
\* both detectors raise ValueError, and clean_data's detector raises (a
\* ValueError) in that case only.
C5_AllZeroFails ==
    exists =>
        /\ (strict # Pending /\ AllZero) => strict.status = "ValueError"
        /\ (simple # Pending) =>
               /\ simple.status \in {"ok", "ValueError"}
               /\ (simple.status = "ValueError") <=> AllZero

\* both detectors have failed on a sample of plain lines
C5_Witness ==
    /\ exists
    /\ NSampled > 0
    /\ AllZero
    /\ strict.status = "ValueError"
    /\ simple.status = "ValueError"

\* C6: clean_tsv_data's detector fails when all four totals are zero and
\* otherwise returns a candidate of maximal total.
C6_TsvFailsOnAllZero ==
    (tsv # Pending /\ exists) =>
        IF AllZero THEN tsv.status # "ok"
        ELSE /\ tsv.status = "ok"
             /\ \A e \in Delims : TotalOcc(e) <= TotalOcc(tsv.delimiter)

-----------------------------------------------------------------------------
(* What the properties of the normalizer speak of, read off the argument.  *)

\* the text between the first and the last non-blank character
Trimmed(v) ==
    LET solid == {k \in 1..Len(v) : v[k] # SPACE}
    IN  IF solid = {} THEN <<>>
        ELSE SubSeq(v, CHOOSE k \in solid : \A j \in solid : k <= j,
                       CHOOSE k \in solid : \A j \in solid : j <= k)

\* the literal N/A in any case
IsNA(t) == Len(t) = 3 /\ t[1] \in {"N", "n"} /\ t[2] = "/" /\ t[3] \in {"A", "a"}

\* what the two suffix rules can remove between them
Suffixes == {<<>>, <<"x">>, <<"X">>, <<"%">>, <<"%", "x">>, <<"%", "X">>}

\* the text left once the longest removable suffix is taken off
Remaining(t) ==
    LET ks == {k \in 0..2 : k <= Len(t) /\ SubSeq(t, Len(t) - k + 1, Len(t)) \in Suffixes}
        k == CHOOSE k \in ks : \A j \in ks : j <= k
    IN  SubSeq(t, 1, Len(t) - k)

DigitStrings == UNION {[1..n -> Digits] : n \in 0..MaxValueLen}

\* the decimal numerals and the number each denotes: an optional sign, digits
\* with an optional point, at least one digit
Numerals ==
    {<<sg \o ip \o pt \o fp,
       FloatOf(IF sg = <<>> THEN 1 ELSE -1, DigitsValue(ip), Significant(fp))>> :
        <<sg, ip, pt, fp>> \in
            {q \in {<<>>, <<"-">>} \X DigitStrings \X {<<>>, <<".">>} \X DigitStrings :
                /\ Len(q[2]) + Len(q[4]) >= 1
                /\ (q[4] # <<>> => q[3] # <<>>)
                /\ Len(q[1]) + Len(q[2]) + Len(q[3]) + Len(q[4]) <= MaxValueLen}}

\* the spellings of not-a-number that float() reads
NanNumerals ==
    {sg \o <<a, b, c>> : sg \in {<<>>, <<"-">>}, a \in {"N", "n"}, b \in {"A", "a"}, c \in {"N", "n"}}

\* the floats a text denotes under the lexical rules of float(): the numeral
\* may be surrounded by blanks; no float when the text is no numeral
Denoted(r) ==
    {p[2] : p \in {q \in Numerals : Trimmed(r) = q[1]}}
        \cup (IF Trimmed(r) \in NanNumerals THEN {FloatNan} ELSE {})

\* C7: clean_numeric_value returns for every string (it never lets the
\* ValueError of float() out); it returns None exactly when the trimmed
\* argument is empty, is N/A in any case, or leaves no parsable numeral after
\* suffix stripping, and otherwise returns the number that text denotes.
C7_NoneIffEmptyNaOrUnparsable ==
    (cleaner # "") =>
        LET t == Trimmed(value)
            D == Denoted(Remaining(t))
        IN  /\ cleaned.t \in {"None", "float", "nan"}
            /\ (cleaned = None) <=> (t = <<>> \/ IsNA(t) \/ D = {})
            /\ (cleaned # None) => cleaned \in D

\* a number is returned for an argument with a blank after its suffix
C7_Witness ==
    /\ cleaner = "clean_data"
    /\ value = <<"-", "5", "x", SPACE>>
    /\ cleaned = FloatOf(-1, 5, <<>>)

\* numerals without blanks
PlainNumerals == {p[1] : p \in Numerals}
NumberOf(n) == CHOOSE f \in {p[2] : p \in {q \in Numerals : q[1] = n}} : TRUE

\* C8: at most one trailing x or X is removed, then at most one trailing %:
\* a numeral followed by x, X, %, %x or %X gives its number, a numeral followed
\* by x%, xx or %% (in any case of x) gives None; in both scripts alike.
C8_SuffixRulesInOrder ==
    (cleaner # "") =>
        \A n \in PlainNumerals :
            /\ \A sfx \in Suffixes : (value = n \o sfx) => cleaned = NumberOf(n)
            /\ \A a \in {"x", "X"}, b \in {"x", "X", "%"} :
                   (value = n \o <<a, b>>) => cleaned = None
            /\ (value = n \o <<"%", "%">>) => cleaned = None

\* 5%x read by the TSV script: both suffixes are removed
C8_Witness ==
    /\ cleaner = "clean_tsv_data"
    /\ value = <<"5", "%", "x">>
    /\ cleaned = FloatOf(1, 5, <<>>)

-----------------------------------------------------------------------------
(* Properties of the rows a reader produces.                               *)

\* the loop body has just appended the row made from the record in row
JustAppended == reader_pc = "rows" /\ row_num > 1 /\ AnyField(row)

LastRow == cleaned_data[Len(cleaned_data)]

\* C9: in every row the value under the first header is a text value, the
\* trimmed raw text of field 0 for the row just built, and every value under
\* a later header is a decimal or None, never text.
C9_FirstColumnTextOthersNumeric ==
    /\ \A k \in 1..Len(cleaned_data) :
           /\ headers # <<>> =>
                  /\ headers[1] \in DOMAIN cleaned_data[k]
                  /\ cleaned_data[k][headers[1]].t = "str"
           /\ \A i \in 2..Len(headers) :
                  headers[i] \in DOMAIN cleaned_data[k] =>
                      cleaned_data[k][headers[i]].t \in {"None", "float", "nan"}
    /\ (JustAppended /\ headers # <<>>) =>
           LastRow[headers[1]] = Text(Trimmed(row[1]))

\* C10: every row has exactly as many entries as there are headers.
C10_RowHasOneEntryPerHeader ==
    \A k \in 1..Len(cleaned_data) :
        Cardinality(DOMAIN cleaned_data[k]) = Len(headers)

\* the reader has returned headers, cleaned_data
ReadSucceeded == reader_pc \notin {"idle", "start", "rows", "FileNotFoundError", "ValueError"}

\* C11: the header list returned by a successful read is non-empty and each
\* of its names is whitespace-trimmed (no blank at either end), whatever the
\* first line was, a blank first line included.
C11_HeadersNonEmptyAndTrimmed ==
    ReadSucceeded =>
        /\ headers # <<>>
        /\ \A i \in 1..Len(headers) : headers[i] = Trimmed(headers[i])

\* every field of the record is empty or holds blanks only
AllBlank(r) == \A i \in 1..Len(r) : Trimmed(r[i]) = <<>>

\* C12: a pass of the row loop over a record whose fields are all empty or
\* blank, a blank line included, leaves the rows as they were: the record
\* makes no row and the rows read before keep their places.
C12_BlankRecordSkipped ==
    [][(reader_pc = "rows" /\ row_num' = row_num + 1 /\ AllBlank(row'))
           => cleaned_data' = cleaned_data]_vars

-----------------------------------------------------------------------------
(* Properties of the SQL statements.                                       *)

StartsWithText(s, p) == Len(p) <= Len(s) /\ SubSeq(s, 1, Len(p)) = p
EndsWithText(s, p) == Len(p) <= Len(s) /\ SubSeq(s, Len(s) - Len(p) + 1, Len(s)) = p

\* generate_sql_statements has returned its list
SqlReturned == sql_statements # NotCalled /\ sql_statements.status = "ok"

\* the k-th statement of the returned list
Statement(k) == sql_statements.value[k]

\* a text with every single quote doubled
RECURSIVE Doubled(_)
Doubled(s) ==
    IF s = <<>> THEN <<>>
    ELSE IF Head(s) = APOSTROPHE THEN <<APOSTROPHE, APOSTROPHE>> \o Doubled(Tail(s))
    ELSE <<Head(s)>> \o Doubled(Tail(s))

\* a value rendered by its type
Rendered(v) ==
    CASE v.t = "None" -> <<"N", "U", "L", "L">>
      [] v.t = "str" -> <<APOSTROPHE>> \o Doubled(v.s) \o <<APOSTROPHE>>
      [] OTHER -> StrFloat(v)

\* texts separated by a comma and a space
RECURSIVE Listed(_)
Listed(ts) ==
    IF ts = <<>> THEN <<>>
    ELSE IF Len(ts) = 1 THEN ts[1]
    ELSE ts[1] \o <<",", " ">> \o Listed(Tail(ts))

\* the normalized column names, in header order
ColumnNames == [i \in 1..Len(headers) |-> NormalizeColumnName(headers[i])]

\* how an INSERT statement begins, up to the end of its column list
InsertHead == InsertInto \o TableName \o <<" ", "(">> \o Listed(ColumnNames) \o <<")">>

\* C13: for a non-empty header list and the rows the reader produced for it,
\* generate_sql_statements returns 1 + (number of rows) statements: first the
\* CREATE TABLE statement, then the INSERT statement of each row, in the order
\* of the rows.
C13_OneStatementPerRowInOrder ==
    (sql_statements # NotCalled /\ headers # <<>>) =>
        /\ sql_statements.status = "ok"
        /\ Len(sql_statements.value) = 1 + Len(cleaned_data)
        /\ StartsWithText(Statement(1), CreateTableText)
        /\ \A k \in 1..Len(cleaned_data) :
               /\ StartsWithText(Statement(k + 1), InsertInto)
               /\ EndsWithText(Statement(k + 1),
                      Listed([i \in 1..Len(headers) |-> Rendered(cleaned_data[k][headers[i]])])
                          \o <<")", ";">>)

\* C14: generate_sql_statements raises ValueError exactly when the header
\* list is empty, whatever the rows, and then returns no statement.
C14_ValueErrorIffNoHeaders ==
    (sql_statements # NotCalled) =>
        /\ (sql_statements.status = "ValueError") <=> (headers = <<>>)
        /\ (headers = <<>>) => sql_statements = Raised("ValueError")

\* the header list is empty, there are rows, and the ValueError was raised
C14_Witness ==
    /\ headers = <<>>
    /\ Len(cleaned_data) = MaxRecords
    /\ sql_statements = Raised("ValueError")

\* C15: each INSERT statement closes with the values of its row in header
\* order, one per header, separated by ", ": NULL for None, the text between
\* single quotes with each embedded single quote doubled for a text, str() of
\* the number for a float.
C15_ValuesRenderedByType ==
    SqlReturned =>
        \A k \in 1..Len(cleaned_data) :
            Statement(k + 1) =
                InsertHead \o <<" ", "V", "A", "L", "U", "E", "S", " ", "(">>
                    \o Listed([i \in 1..Len(headers) |-> Rendered(cleaned_data[k][headers[i]])])
                    \o <<")", ";">>

\* an INSERT statement holding a text with a doubled quote, a NULL and a
\* number
C15_Witness ==
    /\ SqlReturned
    /\ Len(headers) >= 2
    /\ \E k \in 1..Len(cleaned_data) :
          /\ cleaned_data[k][headers[1]] = Text(<<"O", APOSTROPHE>>)
          /\ cleaned_data[k][headers[2]] = None
          /\ EndsWithText(Statement(k + 1),
                 <<"(", APOSTROPHE, "O", APOSTROPHE, APOSTROPHE, APOSTROPHE, ",", " ",
                   "N", "U", "L", "L", ")", ";">>)
    /\ \E k \in 1..Len(cleaned_data) :
          /\ cleaned_data[k][headers[2]] = FloatOf(1, 5, <<>>)
          /\ EndsWithText(Statement(k + 1), <<",", " ", "5", ".", "0", ")", ";">>)

\* the declaration of the i-th column
Declaration(i) ==
    <<" ", " ", " ", " ">> \o ColumnNames[i]
        \o (IF i = 1
            THEN <<" ", "V", "A", "R", "C", "H", "A", "R", "(", "2", "5", "5", ")", " ",
                   "P", "R", "I", "M", "A", "R", "Y", " ", "K", "E", "Y">>
            ELSE <<" ", "D", "E", "C", "I", "M", "A", "L", "(", "1", "0", ",", " ", "2", ")">>)

\* declarations separated by a comma and a newline
RECURSIVE Declared(_)
Declared(ds) ==
    IF ds = <<>> THEN <<>>
    ELSE IF Len(ds) = 1 THEN ds[1]
    ELSE ds[1] \o <<",", NEWLINE>> \o Declared(Tail(ds))

\* C16: the CREATE TABLE statement declares one column per header, in header
\* order, the first as VARCHAR(255) PRIMARY KEY and each other as
\* DECIMAL(10, 2), and every INSERT statement lists the same normalized names
\* in the same order.
C16_SchemaColumnsMatchInserts ==
    SqlReturned =>
        /\ Statement(1) =
               CreateTableText \o TableName \o <<" ", "(", NEWLINE>>
                   \o Declared([i \in 1..Len(headers) |-> Declaration(i)])
                   \o <<NEWLINE, ")", ";", NEWLINE>>
        /\ \A k \in 2..Len(sql_statements.value) :
               StartsWithText(Statement(k), InsertHead \o <<" ", "V", "A", "L", "U", "E", "S">>)

\* a schema of MaxCols columns with a normalized name, and an INSERT statement
C16_Witness ==
    /\ SqlReturned
    /\ Len(headers) = MaxCols
    /\ headers[MaxCols] = <<"B", SPACE, "b">>
    /\ ColumnNames[MaxCols] = <<"b", UNDERSCORE, "b">>
    /\ Len(sql_statements.value) = 1 + MaxRecords

-----------------------------------------------------------------------------
(* Properties of normalize_column_name.                                    *)

\* the small letter of a capital letter, any other character itself
Small(ch) ==
    CASE ch = "A" -> "a"
      [] ch = "B" -> "b"
      [] ch = "N" -> "n"
      [] ch = "X" -> "x"
      [] ch = CAPITAL_I_DOT -> "i"
      [] OTHER -> ch

\* C17 (as written): the normalized name has the length of the name, holds
\* an underscore where the name holds a space and elsewhere the lowercased
\* character of the name, and normalizing it again returns it unchanged.
C17_LengthPreservedAndIdempotent ==
    (normalized # <<>>) =>
        /\ Len(normalized[1]) = Len(name)
        /\ \A i \in 1..Len(name) :
               normalized[1][i] = (IF name[i] = SPACE THEN UNDERSCORE ELSE Small(name[i]))
        /\ (Len(normalized) = 2) => normalized[2] = normalized[1]

\* what one character of the name becomes: a space an underscore, U+0130 its
\* two-character lowercase form, any other character its lowercase form
Image(ch) ==
    IF ch = SPACE THEN <<UNDERSCORE>>
    ELSE IF ch = CAPITAL_I_DOT THEN <<"i", COMBINING_DOT>>
    ELSE <<Small(ch)>>

RECURSIVE Images(_)
Images(s) == IF s = <<>> THEN <<>> ELSE Image(Head(s)) \o Images(Tail(s))

\* C17 (amended): the normalized name is the name with each space replaced
\* by one underscore and each other character lowercased; its length is that
\* of the name when the name holds no U+0130 (whose lowercase form is two
\* characters long) and one more per U+0130 otherwise; normalizing it again
\* returns it unchanged, for every name.
C17_LowercasedSpacesReplacedIdempotent ==
    (normalized # <<>>) =>
        /\ normalized[1] = Images(name)
        /\ Len(normalized[1]) =
               Len(name) + Cardinality({i \in 1..Len(name) : name[i] = CAPITAL_I_DOT})
        /\ (\A i \in 1..Len(name) : name[i] # CAPITAL_I_DOT) =>
               /\ Len(normalized[1]) = Len(name)
               /\ \A i \in 1..Len(name) :
                      normalized[1][i] =
                          (IF name[i] = SPACE THEN UNDERSCORE ELSE Small(name[i]))
        /\ (Len(normalized) = 2) => normalized[2] = normalized[1]

\* a name with a capital, a space and U+0130, normalized twice
C17_Witness ==
    /\ name = <<"A", SPACE, CAPITAL_I_DOT>>
    /\ normalized = <<<<"a", UNDERSCORE, "i", COMBINING_DOT>>,
                      <<"a", UNDERSCORE, "i", COMBINING_DOT>>>>

-----------------------------------------------------------------------------
(* Properties of the CSV file.                                             *)

\* export_to_csv has written its file
CsvWritten == csv_file # NotCalled /\ csv_file.status = "ok"

\* the k-th line of the written file, and its fields as a CSV reader takes
\* them
Line(k) == csv_file.value[k]
Fields(k) == CsvRecord(Line(k), COMMA)

\* a value in its textual form, None as the empty text
Shown(v) ==
    CASE v.t = "None" -> <<>>
      [] v.t = "str" -> v.s
      [] OTHER -> StrFloat(v)

\* the texts need no CSV escaping: none holds a comma or a quote, and they
\* are not the lone empty text
Plain(ts) ==
    /\ \A i \in 1..Len(ts) : \A j \in 1..Len(ts[i]) : ts[i][j] \notin {COMMA, QUOTE}
    /\ ts # <<<<>>>>

\* texts separated by commas
RECURSIVE Commas(_)
Commas(ts) ==
    IF ts = <<>> THEN <<>>
    ELSE IF Len(ts) = 1 THEN ts[1]
    ELSE ts[1] \o <<COMMA>> \o Commas(Tail(ts))

\* C18: the written file is the header line, holding the headers in order,
\* followed by exactly one line per row in the order of the rows; the field of
\* a None value is empty, the field of a text or a number is its textual form
\* (verbatim on the line whenever no field needs CSV escaping).
C18_HeaderLineThenOneLinePerRow ==
    CsvWritten =>
        /\ Len(csv_file.value) = 1 + Len(cleaned_data)
        /\ Fields(1) = headers
        /\ Plain(headers) => Line(1) = Commas(headers)
        /\ \A k \in 1..Len(cleaned_data) :
               /\ Len(Fields(k + 1)) = Len(headers)
               /\ \A i \in 1..Len(headers) :
                      headers[i] \in DOMAIN cleaned_data[k] =>
                          Fields(k + 1)[i] = Shown(cleaned_data[k][headers[i]])
               /\ LET ts == [i \in 1..Len(headers) |->
                                 IF headers[i] \in DOMAIN cleaned_data[k]
                                 THEN Shown(cleaned_data[k][headers[i]]) ELSE <<>>]
                  IN  ((\A i \in 1..Len(headers) : headers[i] \in DOMAIN cleaned_data[k])
                          /\ Plain(ts)) => Line(k + 1) = Commas(ts)

\* a file of 1 + MaxRecords lines: a line with a quoted text and an empty
\* field for None, and a line with a number
C18_Witness ==
    /\ CsvWritten
    /\ Len(headers) = 2
    /\ Len(cleaned_data) = MaxRecords
    /\ \E k \in 1..Len(cleaned_data) :
          /\ cleaned_data[k] =
                 (headers[1] :> Text(<<"O", APOSTROPHE, COMMA>>)) @@ (headers[2] :> None)
          /\ Line(k + 1) = <<QUOTE, "O", APOSTROPHE, COMMA, QUOTE, COMMA>>
    /\ \E k \in 1..Len(cleaned_data) :
          /\ cleaned_data[k] =
                 (headers[1] :> Text(<<"5", "x">>)) @@ (headers[2] :> FloatOf(1, 5, <<>>))
          /\ Line(k + 1) = <<"5", "x", COMMA, "5", ".", "0">>

\* no value of any row is None
NoNull ==
    \A k \in 1..Len(cleaned_data) :
        \A h \in DOMAIN cleaned_data[k] : cleaned_data[k][h] # None

\* two floats equal as numbers (nan equals nothing, the two zeros are equal)
NumericallyEqual(a, b) ==
    /\ a.t = "float" /\ b.t = "float"
    /\ a.int = b.int /\ a.frac = b.frac
    /\ (a.sign = b.sign \/ (a.int = 0 /\ a.frac = <<>>))

\* C19: when no value of the rows is None, reading the written file back with
\* the same reader and the comma succeeds with the same headers and as many
\* rows, each row with the entries of the original one: an equal text under
\* the first header, numerically equal values under the others.
C19_RoundTrip ==
    (reread # NotCalled /\ NoNull) =>
        /\ reread.status = "ok"
        /\ reread.value[1] = headers
        /\ Len(reread.value[2]) = Len(cleaned_data)
        /\ \A k \in 1..Len(cleaned_data) :
               LET old == cleaned_data[k]
                   new == reread.value[2][k]
               IN  /\ DOMAIN new = DOMAIN old
                   /\ \A h \in DOMAIN old :
                          IF h = headers[1]
                          THEN old[h].t = "str" /\ new[h] = old[h]
                          ELSE NumericallyEqual(old[h], new[h])

-----------------------------------------------------------------------------
(* Properties of a reader called on a file.                                *)

\* C20: a reader raises FileNotFoundError exactly when the file does not
\* exist and ValueError exactly when the file exists and is empty, returning
\* neither headers nor rows in both cases; on a file of one line it succeeds
\* with the trimmed names of that line as headers and no row.
C20_ErrorsAndHeaderOnlyFile ==
    (reader # "") =>
        /\ (reader_pc = "FileNotFoundError") <=> ~exists
        /\ (reader_pc = "ValueError") <=> (exists /\ file = <<>>)
        /\ (reader_pc \in {"FileNotFoundError", "ValueError"}) =>
               (headers = <<>> /\ cleaned_data = <<>>)
        /\ (exists /\ file # <<>>) => reader_pc = "done"
        /\ (exists /\ Len(file) = 1) =>
               /\ cleaned_data = <<>>
               /\ Len(headers) =
                      (IF file[1] = <<>> THEN 0 ELSE 1 + StrCount(file[1], delimiter))
               /\ \A i \in 1..Len(headers) :
                      headers[i] = Trimmed(CsvRecord(file[1], delimiter)[i])

\* the ValueError on an empty file
C20_Witness ==
    /\ reader = "clean_data"
    /\ exists
    /\ file = <<>>
    /\ reader_pc = "ValueError"
    /\ headers = <<>>
    /\ cleaned_data = <<>>

-----------------------------------------------------------------------------
(* What the properties of get_delimiter and main speak of.                 *)

\* the named format flags that are set on the command line
FlagsSet == {k \in {"--tsv", "--csv", "--pipe", "--semicolon"} : arguments[k]}

\* get_delimiter was called and has returned or raised
GetDelimiterCalled == resolved # NotCalled

\* get_delimiter raised the error of conflicting format flags
ConflictRaised ==
    /\ resolved.status = "ValueError"
    /\ resolved.message = "Multiple format flags specified"

\* C21: get_delimiter raises the ValueError of conflicting format selection
\* whenever more than one of --tsv, --csv, --pipe, --semicolon is set, whatever
\* the other arguments and the file are (a custom --delimiter included), and
\* never raises it when at most one is set.
C21_ConflictIffSeveralFlags ==
    GetDelimiterCalled => (ConflictRaised <=> Cardinality(FlagsSet) > 1)

\* a conflict is raised although a custom delimiter is given and the file
\* does not exist
C21_Witness ==
    /\ GetDelimiterCalled
    /\ ConflictRaised
    /\ Cardinality(FlagsSet) = 2
    /\ arguments["--delimiter"] = Text(<<COMMA>>)
    /\ ~exists

\* main has returned
MainReturned == main_pc = "returned"

\* the output files as main left them
SqlWritten == sql_file.status = "ok"

\* delimiter resolution succeeded, and reading the input file with the
\* delimiter it gave succeeds
ResolvedAndRead ==
    /\ resolved.status = "ok"
    /\ MainReadAndCleanData(exists, file, resolved.delimiter).status = "ok"

\* some step of the run failed: the input file is missing, the delimiter
\* could not be resolved, the file could not be read, or an output step that
\* was not skipped did not write its file
SomeStepFailed ==
    \/ ~exists
    \/ ~ResolvedAndRead
    \/ ~arguments["--no-csv"] /\ ~CsvWritten
    \/ ~arguments["--no-sql"] /\ ~SqlWritten

\* C22: main returns 0 exactly when delimiter resolution, reading and every
\* output step that was not skipped completed without error, and 1 for every
\* failure of one of them; for a missing input file it returns 1 and neither
\* output file is created.
C22_ExitCodeTellsSuccess ==
    MainReturned =>
        /\ exit_code = (IF SomeStepFailed THEN 1 ELSE 0)
        /\ ~exists => exit_code = 1 /\ csv_file = NotCalled /\ sql_file = NotCalled

\* a run that wrote both files of a table with a row and returned 0
C22_Witness ==
    /\ MainReturned
    /\ exit_code = 0
    /\ ~SomeStepFailed
    /\ ~arguments["--no-csv"] /\ ~arguments["--no-sql"]
    /\ cleaned_data # <<>>

\* C23: in every state of every run the CSV file is unwritten when --no-csv is
\* set and the SQL file is unwritten when --no-sql is set; after a run that
\* returned 0 each output file is written exactly when its skip flag is not
\* set.
C23_SkipFlagsRespected ==
    /\ arguments["--no-csv"] => csv_file = NotCalled
    /\ arguments["--no-sql"] => sql_file = NotCalled /\ sql_statements = NotCalled
    /\ (MainReturned /\ exit_code = 0) =>
          /\ CsvWritten <=> ~arguments["--no-csv"]
          /\ SqlWritten <=> ~arguments["--no-sql"]

\* a successful run with --no-csv: the SQL file is written, the CSV file is
\* not
C23_Witness ==
    /\ MainReturned
    /\ exit_code = 0
    /\ arguments["--no-csv"] /\ ~arguments["--no-sql"]
    /\ SqlWritten
    /\ csv_file = NotCalled
    /\ cleaned_data # <<>>

\* generate_sql_statements was called and raised
SqlGenerationFailed == sql_statements.status \notin {"pending", "ok"}

\* the order of the steps, read off the state: an output file exists only
\* after resolution and reading succeeded, and SQL generation has run only
\* after the CSV export completed or was skipped
StepsInOrder ==
    /\ (csv_file # NotCalled \/ sql_statements # NotCalled \/ sql_file # NotCalled)
          => ResolvedAndRead
    /\ sql_statements # NotCalled => (arguments["--no-csv"] \/ CsvWritten)
    /\ sql_file # NotCalled => sql_statements.status = "ok"

\* C29 as stated: the steps run in the order resolve, read, CSV export, SQL
\* generation and write; no output file exists unless resolution and reading
\* succeeded; a run whose SQL generation fails returns 1 with the CSV file
\* fully written and no SQL file.
C29_SqlFailureLeavesCsvWritten ==
    /\ StepsInOrder
    /\ (MainReturned /\ SqlGenerationFailed) =>
          /\ exit_code = 1
          /\ csv_file = ExportToCsv(headers, cleaned_data)
          /\ sql_file = NotCalled

\* C29 amended: as above, but the CSV file is fully written in a run whose SQL
\* generation fails only when --no-csv is not set; with --no-csv such a run
\* returns 1 and leaves no output file at all.
C29_SqlFailureLeavesCsvUnlessSkipped ==
    /\ StepsInOrder
    /\ (MainReturned /\ SqlGenerationFailed) =>
          /\ exit_code = 1
          /\ csv_file = (IF arguments["--no-csv"] THEN NotCalled
                         ELSE ExportToCsv(headers, cleaned_data))
          /\ sql_file = NotCalled

\* SQL generation raised KeyError on a row without its second header, after
\* the CSV file was written
C29_Witness ==
    /\ MainReturned
    /\ sql_statements = Raised("KeyError")
    /\ ~arguments["--no-csv"]
    /\ CsvWritten
    /\ sql_file = NotCalled
    /\ exit_code = 1

\* the named formats as the usage text gives them: flag, character, name
NamedFormats ==
    {[flag |-> "--tsv", char |-> TAB, name |-> <<"T", "S", "V">>],
     [flag |-> "--csv", char |-> COMMA, name |-> <<"C", "S", "V">>],
     [flag |-> "--pipe", char |-> PIPE, name |-> <<"P", "I", "P", "E">>],
     [flag |-> "--semicolon", char |-> SEMICOLON,
      name |-> <<"S", "E", "M", "I", "C", "O", "L", "O", "N">>]}

\* a custom delimiter is given on the command line
CustomGiven == arguments["--delimiter"] \notin {None, Text(<<>>)}

\* C27: without a conflict, a custom --delimiter wins over a format flag and
\* yields the name CUSTOM; otherwise a single format flag yields its character
\* and its upper-cased name; the file is sampled only when neither is given,
\* and a detected delimiter is reported as TSV, CSV, PIPE or SEMICOLON with
\* the character of that name, never as UNKNOWN.
C27_PrecedenceCustomFlagDetect ==
    (GetDelimiterCalled /\ Cardinality(FlagsSet) <= 1) =>
        IF CustomGiven
        THEN /\ resolved.status = "ok"
             /\ resolved.format_name = <<"C", "U", "S", "T", "O", "M">>
             /\ ~resolved.sampled
        ELSE IF FlagsSet # {}
        THEN /\ resolved.status = "ok"
             /\ \E fmt \in NamedFormats :
                   /\ FlagsSet = {fmt.flag}
                   /\ resolved.delimiter = <<fmt.char>>
                   /\ resolved.format_name = fmt.name
             /\ ~resolved.sampled
        ELSE resolved.status = "ok" =>
                /\ resolved.sampled
                /\ \E fmt \in NamedFormats :
                      /\ resolved.delimiter = <<fmt.char>>
                      /\ resolved.format_name = fmt.name

-----------------------------------------------------------------------------
(* Further properties of detection.                                        *)

\* C24: strict detection samples the first min(sample_lines, number of
\* lines) lines of the file: every total and every modal frequency in scores
\* is taken over exactly these lines and the confidence has their number as
\* denominator; it raises ValueError "File is empty" exactly when that number
\* is zero, with no candidate scored; a missing file raises FileNotFoundError,
\* nothing being read or scored.
C24_SamplePrefixAndEmptyInput ==
    strict # Pending =>
        IF ~exists
        THEN strict.status = "FileNotFoundError" /\ DOMAIN scores = {}
        ELSE /\ (strict.status = "ValueError" /\ strict.name = "File is empty")
                    <=> NSampled = 0
             /\ NSampled = 0 => DOMAIN scores = {}
             /\ \A d \in DOMAIN scores :
                   /\ scores[d][1] = TotalOcc(d)
                   /\ scores[d][2] = ModalFrequency(d)
             /\ strict.status = "ok" => strict.den = NSampled

\* a success on a sample shorter than the file, a line beyond the sample
\* holding the returned delimiter
C24_Witness ==
    /\ strict.status = "ok"
    /\ 0 < sample_lines /\ sample_lines < Len(file)
    /\ strict.den = sample_lines
    /\ \E k \in (sample_lines + 1)..Len(file) : Occ(strict.delimiter, k) > 0

\* both detectors have run on the file
BothDetectorsRan == strict # Pending /\ simple # Pending

\* C25: on every file and sample_lines value on which strict detection
\* (identify_format) succeeds, simple detection (clean_data) succeeds as
\* well; the converse fails and the two results may differ (C25_Witness,
\* C25_BothSucceedDifferently).
C25_StrictSuccessImpliesSimpleSuccess ==
    (BothDetectorsRan /\ strict.status = "ok") => simple.status = "ok"

\* simple detection returns a delimiter on a file on which strict detection
\* finds no candidate consistent enough
C25_Witness ==
    /\ BothDetectorsRan
    /\ simple.status = "ok"
    /\ strict.status = "ValueError"
    /\ NSampled > 0

\* both succeed and return different delimiters
C25_BothSucceedDifferently ==
    /\ BothDetectorsRan
    /\ strict.status = "ok"
    /\ simple.status = "ok"
    /\ strict.delimiter # simple.delimiter

\* the place of a candidate in the fixed order TAB, COMMA, PIPE, SEMICOLON
Place(d) ==
    IF d = TAB THEN 1 ELSE IF d = COMMA THEN 2 ELSE IF d = PIPE THEN 3 ELSE 4

\* the earliest candidate of a non-empty set
Earliest(S) == CHOOSE d \in S : \A e \in S : Place(d) <= Place(e)

\* the candidates of S of maximal total count over the sample
MaxTotal(S) == {d \in S : \A e \in S : TotalOcc(e) <= TotalOcc(d)}

\* the candidates of S that share the maximal total count and, among those,
\* the maximal consistency ratio
MaxTotalAndRatio(S) ==
    {d \in MaxTotal(S) : \A e \in MaxTotal(S) : ModalFrequency(e) <= ModalFrequency(d)}

\* simple detection returns the earliest candidate of maximal total count
SimpleTieToEarliest ==
    (simple.status = "ok") => simple.delimiter = Earliest(MaxTotal(Delims))

\* C30 as stated: simple detection returns the earliest of the fixed candidates
\* of maximal total count, strict detection the earliest of the fixed
\* candidates that share the maximal total count and the maximal consistency
\* ratio.
C30_EarliestOfTiedCandidates ==
    /\ SimpleTieToEarliest
    /\ (strict.status = "ok" /\ Cardinality(MaxTotalAndRatio(Delims)) > 1) =>
          strict.delimiter = Earliest(MaxTotalAndRatio(Delims))

\* C30 amended: in strict mode the tie is among the candidates that passed the
\* filter of the scoring loop (those in scores); a candidate of the same total
\* and ratio whose modal count is zero does not take part.
C30_EarliestOfTiedSurvivors ==
    /\ SimpleTieToEarliest
    /\ (strict.status = "ok") => strict.delimiter = Earliest(MaxTotalAndRatio(DOMAIN scores))

\* both detectors return TAB on a sample in which another candidate has the
\* same total count and the same consistency ratio and passed the filter too
C30_Witness ==
    /\ strict.status = "ok"
    /\ simple.status = "ok"
    /\ Cardinality(MaxTotalAndRatio(DOMAIN scores)) > 1
    /\ Cardinality(MaxTotal(Delims)) > 1
    /\ ModalFrequency(strict.delimiter) < NSampled

-----------------------------------------------------------------------------
(* Further properties of the rows and of the emitters.                     *)

\* min(k, n) for a record of k fields and n headers
Paired == IF Len(row) <= Len(headers) THEN Len(row) ELSE Len(headers)

\* the value the reader stores for the field at position i
EntryFor(i) == IF i = 1 THEN Text(Trimmed(row[1])) ELSE CleanOf(reader, row[i])

\* C26: the row built from a record of k fields under n headers has exactly
\* the first min(k, n) headers as its keys, each paired with the value of the
\* field at its own position; the trailing headers of a short record are
\* absent, the fields beyond the n-th of a long record are dropped, and no
\* error is raised.
C26_RowIsPositionalZip ==
    JustAppended =>
        /\ reader_pc = "rows"
        /\ \A i \in 1..Len(headers) :
               IF i <= Paired
               THEN /\ headers[i] \in DOMAIN LastRow
                    /\ LastRow[headers[i]] = EntryFor(i)
               ELSE headers[i] \notin DOMAIN LastRow
        /\ Cardinality(DOMAIN LastRow) = Paired

\* the reader has returned and the emitters are being run on its result
Emitting == reader_pc \in {"done", "exported", "generated"}

\* C28: a step of either emitter leaves the headers and the rows as they
\* were, and what it produces is the CSV text, respectively the SQL
\* statements, of these headers and rows, whether it runs first or second;
\* so the two outputs do not depend on the order of the emitters.
C28_EmittersLeaveInputsAlone ==
    [][Emitting =>
          /\ headers' = headers
          /\ cleaned_data' = cleaned_data
          /\ csv_file' # csv_file => csv_file' = ExportToCsv(headers, cleaned_data)
          /\ sql_statements' # sql_statements =>
                 sql_statements' = GenerateSqlStatements(headers, cleaned_data, TableName)]_vars

\* both emitters have run on rows holding a None, in either order (the two
\* orders end in this one state), and the outputs are those of the rows as
\* they still are
C28_Witness ==
    /\ reader_pc = "emitted"
    /\ sql_statements.status = "ok"
    /\ CsvWritten
    /\ \E k \in 1..Len(cleaned_data) : \E h \in DOMAIN cleaned_data[k] : cleaned_data[k][h] = None
    /\ sql_statements = GenerateSqlStatements(headers, cleaned_data, TableName)
    /\ csv_file = ExportToCsv(headers, cleaned_data)

=============================================================================
